---- MODULE Spec2Model ----
(***************************************************************************)
(* Knight selection on a ring (part1-threads/src/KnightSelection.cpp) and  *)
(* city capture over MPI (part3-mpi/src/CityCapture.cpp, further down).    *)
(*                                                                         *)
(* N knights sit at a round table; each runs knightProcess(id) in its own  *)
(* thread and raises / lowers its hand under the mutex; the calling thread *)
(* runs the selection loop of startSelection(), which snapshots the raised *)
(* hands, picks one at random and commits it.                              *)
(*                                                                         *)
(* Granularity.  Every access to selected / handRaised is made under mtx,  *)
(* so a critical section is modelled as one step that takes the mutex and  *)
(* one step that runs the body and releases it; the commit section, which  *)
(* writes selected[] and the atomic selectedCount one after the other, is  *)
(* split at that point, because knightProcess reads selectedCount without  *)
(* the mutex.  The two atomic reads of the loop condition of knightProcess *)
(* are one step: stopFlag only goes false -> true and selectedCount only   *)
(* grows, so reading both at the instant of the first read gives the same  *)
(* outcomes.                                                               *)
(***************************************************************************)
EXTENDS Integers, FiniteSets, Sequences, TLC

VARIABLES
    totalKnights,     \* const int totalKnights      (constructor argument)
    requiredKnights,  \* const int requiredKnights   (constructor argument)
    thrown,           \* exception leaving the constructor, "none" if none
    selected,         \* std::vector<bool> selected
    handRaised,       \* std::vector<bool> handRaised
    selectedCount,    \* std::atomic<int> selectedCount
    stopFlag,         \* std::atomic<bool> stopFlag
    mtx,              \* owner of std::mutex mtx: NoOwner, a knight id, or Main
    attempts,         \* local of startSelection
    available,        \* local of startSelection (ids pushed in ascending order)
    chosen,           \* local of startSelection
    idx,              \* loop index of the spawn loop and of the join loop
    cpc,              \* position of the thread that constructs and calls
    kpc,              \* position of each knight thread
    validResult,      \* value returned by the last validateSelection() call
    idsResult,        \* value returned by the last getSelectedKnights() call
    \* part3-mpi/src/CityCapture.cpp, one entry per MPI rank where indexed
    num_cities_,      \* int num_cities_          (constructor argument)
    world_size_,      \* int world_size_          (MPI_Comm_size)
    eagerSend,        \* the library buffers a standard-mode MPI_Send
    mismatchHangs,    \* outcome of mismatched collectives (idle ranks)
    capture_order,    \* capture_order of masterProcess, << >> before shuffle
    bcastSent,        \* the root has called MPI_Bcast
    rpc,              \* position of each rank in simulateCapture()
    mstep,            \* masterProcess: step
    mj,               \* rank 0: index of the loop in progress
    captured_cities,  \* masterProcess: captured_cities
    cipher_part,      \* masterProcess: cipher_part of the current step
    new_cipher_part,  \* masterProcess: new_cipher_part of the current step
    cstep,            \* cityProcess: step, per rank
    ci,               \* cityProcess: i of the loop of line 176, per rank
    my_cipher_part,   \* cityProcess: my_cipher_part, per rank
    cipher_parts_,    \* std::vector<int> cipher_parts_, per rank
    toCity,           \* messages sent by rank 0 to each city, in send order
    toMaster,         \* messages sent by each city to rank 0, in send order
    sending,          \* destination of the MPI_Send a rank is blocked in
    barriers,         \* number of MPI_Barrier calls each rank has entered
    cipher_sizes,     \* validateResults on rank 0: cipher_sizes
    valid,            \* main on rank 0: bool valid, "none" before it is set
    \* part2-openmp/src/book_analyzer.cpp, analyzeTextImpl(text, threads)
    text,             \* const std::string& text, as a sequence of bytes
    threads,          \* int threads (size of the OpenMP team)
    loopVarWritable,  \* the i++ of the loop body acts on the loop counter
    nextChunk,        \* first index of the next chunk of the dynamic schedule
    tpc,              \* position of each thread of the team
    ti,               \* loop variable i, per thread
    tend,             \* end of the chunk a thread works on, per thread
    localFreq,        \* std::vector<std::unordered_map<...>> localFreq
    threadLetters,    \* private copy of totalLetters (reduction), per thread
    totalLetters,     \* int totalLetters
    globalFreq,       \* std::map<std::string, int> globalFreq
    apc               \* position of the thread that calls analyzeText

\* the state of a CityCapture job (all ranks)
mpiState == <<num_cities_, world_size_, eagerSend, mismatchHangs,
              capture_order, bcastSent, rpc, mstep, mj, captured_cities,
              cipher_part, new_cipher_part, cstep, ci, my_cipher_part,
              cipher_parts_, toCity, toMaster, sending, barriers>>

\* what main() of part3-mpi holds on rank 0 after simulateCapture()
driverState == <<cipher_sizes, valid>>

\* the state of one call of BookAnalyzer::analyzeText
bookState == <<text, threads, loopVarWritable, nextChunk, tpc, ti, tend,
               localFreq, threadLetters, totalLetters, globalFreq, apc>>

\* the state of a KnightSelection object and of the threads that use it
tableState == <<totalKnights, requiredKnights, thrown, selected, handRaised,
                selectedCount, stopFlag, mtx, attempts, available, chosen,
                idx, cpc, kpc, validResult, idsResult>>

vars == <<tableState, mpiState, driverState, bookState>>

\* what a step of one of the three programs leaves alone: the other two
besidesTable == <<mpiState, driverState, bookState>>

besidesJob == <<tableState, bookState>>

besidesBook == <<tableState, mpiState, driverState>>

shared == <<selected, handRaised, selectedCount, stopFlag>>

(***************************************************************************)
(* Bounds of the model.                                                    *)
(***************************************************************************)
\* largest ring of the fully interleaved specification Spec
MaxKnights == 3

\* largest ring of the fully interleaved specification WideSpec
MaxWideKnights == 4

\* attempt budget of the selection loop.  The source sets 1000; the loop
\* is the same for every budget, and the model checks a budget just large
\* enough for the periodic reset (every resetEvery attempts) to happen.
maxAttempts == 20

\* largest ring of the specification of the two read-only functions
MaxFlagKnights == 5

\* largest ring of the specification with fairness (termination)
MaxFairKnights == 2

(***************************************************************************)
(* Program constants.                                                      *)
(***************************************************************************)
resetEvery == 20

NoOwner == -1

NoChoice == -1

Main == totalKnights

\* the seats of the constructed object (none before construction, or when
\* the constructor threw)
Knights == DOMAIN selected

(***************************************************************************)
(* Pure helpers.                                                           *)
(***************************************************************************)
\* mutant: the seat two places to the right counts as a neighbour as well
neighborsAndNextButOne(id, n) ==
    << (id - 1 + n) % n, (id + 1) % n, (id + 2) % n >>

\* mutant: the right neighbour is computed like the left one
neighborsLeftTwice(id, n) == << (id - 1 + n) % n, (id - 1 + n) % n >>

\* getNeighbors(id): the vector <<left, right>> on a ring of n seats
neighborsOf(id, n) == << (id - 1 + n) % n, (id + 1) % n >>

getNeighbors(id) == neighborsOf(id, totalKnights)

Range(s) == { s[j] : j \in DOMAIN s }

\* mutant: the ids are pushed at the front of the result
RECURSIVE collectFromDescending(_, _, _)
collectFromDescending(sel, i, n) ==
    IF i >= n THEN << >>
    ELSE IF sel[i] THEN collectFromDescending(sel, i + 1, n) \o << i >>
    ELSE collectFromDescending(sel, i + 1, n)

\* the loop "for (int i = 0; i < n; ++i) if (sel[i]) result.push_back(i)"
RECURSIVE collectFrom(_, _, _)
collectFrom(sel, i, n) ==
    IF i >= n THEN << >>
    ELSE IF sel[i] THEN << i >> \o collectFrom(sel, i + 1, n)
    ELSE collectFrom(sel, i + 1, n)

selectedKnightsOf(sel, n) == collectFrom(sel, 0, n)

\* the counting loop of validateSelection
RECURSIVE countFrom(_, _, _)
countFrom(sel, i, n) ==
    IF i >= n THEN 0
    ELSE (IF sel[i] THEN 1 ELSE 0) + countFrom(sel, i + 1, n)

\* mutant: one selected knight fewer than k is still accepted
validateOneShort(sel, n, k) ==
    IF countFrom(sel, 0, n) < k - 1 THEN FALSE
    ELSE \A i \in 0 .. (n - 1) :
            sel[i] => \A nb \in Range(neighborsOf(i, n)) : ~sel[nb]

\* mutant: the count is not checked
validateNeighborsOnly(sel, n, k) ==
    \A i \in 0 .. (n - 1) :
        sel[i] => \A nb \in Range(neighborsOf(i, n)) : ~sel[nb]

\* validateSelection(): false when fewer than k are selected, false when a
\* selected knight has a selected neighbour, true otherwise
validateOf(sel, n, k) ==
    IF countFrom(sel, 0, n) < k THEN FALSE
    ELSE \A i \in 0 .. (n - 1) :
            sel[i] => \A nb \in Range(neighborsOf(i, n)) : ~sel[nb]

validateSelection == validateOf(selected, totalKnights, requiredKnights)

getSelectedKnights == selectedKnightsOf(selected, totalKnights)

(***************************************************************************)
(* Construction.                                                           *)
(***************************************************************************)
\* Arguments tried.  -64 is the first negative size for which the
\* std::vector<bool> member cannot be allocated (see vectorBoolThrows).
TotalArgs == {-64, -1, 0} \cup (1 .. MaxKnights)

RequiredArgs == (-1) .. (MaxKnights + 1)

\* selected(totalKnights, false): the int is converted to size_t.  For
\* n in -63 .. -1 the word count (n + 63) / 64 wraps to 0 and nothing is
\* allocated; for n <= -64 the request is about 2^61 bytes and operator
\* new throws std::bad_alloc, before the constructor body is entered.
vectorBoolThrows(n) == n + 63 < 0

\* mutant: the guard also rejects a K above floor(N/2)
invalidArgumentsStrict(tk, rk) == tk <= 0 \/ rk <= 0 \/ rk > tk \div 2

\* the guard of the constructor body
invalidArguments(tk, rk) == tk <= 0 \/ rk <= 0 \/ rk > tk

\* no KnightSelection object has been constructed
NoTable ==
    /\ totalKnights = 0
    /\ requiredKnights = 0
    /\ thrown = "none"
    /\ selected = << >>
    /\ handRaised = << >>
    /\ selectedCount = 0
    /\ stopFlag = FALSE
    /\ mtx = NoOwner
    /\ attempts = 0
    /\ available = {}
    /\ chosen = NoChoice
    /\ idx = 0
    /\ cpc = "new"
    /\ kpc = << >>
    /\ validResult = "none"
    /\ idsResult = << >>

\* no MPI job has been launched
NoWorld ==
    /\ num_cities_ = 0
    /\ world_size_ = 0
    /\ eagerSend = TRUE
    /\ mismatchHangs = FALSE
    /\ capture_order = << >>
    /\ bcastSent = FALSE
    /\ rpc = << >>
    /\ mstep = 0
    /\ mj = 0
    /\ captured_cities = << >>
    /\ cipher_part = 0
    /\ new_cipher_part = 0
    /\ cstep = << >>
    /\ ci = << >>
    /\ my_cipher_part = << >>
    /\ cipher_parts_ = << >>
    /\ toCity = << >>
    /\ toMaster = << >>
    /\ sending = << >>
    /\ barriers = << >>
    /\ cipher_sizes = << >>
    /\ valid = "none"

\* no text is being analysed
NoBook ==
    /\ text = << >>
    /\ threads = 0
    /\ loopVarWritable = TRUE
    /\ nextChunk = 0
    /\ tpc = << >>
    /\ ti = << >>
    /\ tend = << >>
    /\ localFreq = << >>
    /\ threadLetters = << >>
    /\ totalLetters = 0
    /\ globalFreq = << >>
    /\ apc = "idle"

Init == NoTable /\ NoWorld /\ NoBook

\* KnightSelection::KnightSelection(tk, rk)
Construct(tk, rk) ==
    /\ cpc = "new"
    /\ totalKnights' = tk
    /\ requiredKnights' = rk
    /\ IF vectorBoolThrows(tk)
         THEN /\ thrown' = "bad_alloc"
              /\ cpc' = "failed"
              /\ UNCHANGED <<selected, handRaised, kpc>>
       ELSE IF invalidArguments(tk, rk)
         THEN /\ thrown' = "invalid_argument"
              /\ cpc' = "failed"
              /\ UNCHANGED <<selected, handRaised, kpc>>
       ELSE /\ thrown' = "none"
            /\ cpc' = "ready"
            /\ selected' = [i \in 0 .. (tk - 1) |-> FALSE]
            /\ handRaised' = [i \in 0 .. (tk - 1) |-> FALSE]
            /\ kpc' = [i \in 0 .. (tk - 1) |-> "unborn"]
    /\ UNCHANGED <<besidesTable, selectedCount, stopFlag, mtx, attempts,
                   available, chosen, idx, validResult, idsResult>>

(***************************************************************************)
(* knightProcess(id)                                                       *)
(***************************************************************************)
\* mutant: the knight's loop does not look at the stop flag
knightIgnoresStop == selectedCount < requiredKnights

\* while (!stopFlag && selectedCount < requiredKnights)
knightContinues == ~stopFlag /\ selectedCount < requiredKnights

KnightLoop(id) ==
    /\ kpc[id] = "loop"
    /\ kpc' = [kpc EXCEPT ![id] = IF knightContinues THEN "try" ELSE "done"]
    /\ UNCHANGED <<besidesTable, totalKnights, requiredKnights, thrown,
                   shared, mtx, attempts, available, chosen, idx, cpc,
                   validResult, idsResult>>

\* std::lock_guard at the head of the first block
KnightLockRaise(id) ==
    /\ kpc[id] = "try"
    /\ mtx = NoOwner
    /\ mtx' = id
    /\ kpc' = [kpc EXCEPT ![id] = "raiseCS"]
    /\ UNCHANGED <<besidesTable, totalKnights, requiredKnights, thrown,
                   shared, attempts, available, chosen, idx, cpc, validResult,
                   idsResult>>

\* mutant: a knight raises its hand without looking at its own selected flag
shouldRaiseThoughSelected(id) ==
    /\ ~handRaised[id]
    /\ \A nb \in Range(getNeighbors(id)) : ~(handRaised[nb] \/ selected[nb])

\* mutant: a knight looks at its neighbours' hands only
shouldRaiseBesideSelected(id) ==
    /\ ~selected[id]
    /\ ~handRaised[id]
    /\ \A nb \in Range(getNeighbors(id)) : ~handRaised[nb]

\* mutant: a knight looks at its neighbours' selected flags only
shouldRaiseBesideRaised(id) ==
    /\ ~selected[id]
    /\ ~handRaised[id]
    /\ \A nb \in Range(getNeighbors(id)) : ~selected[nb]

\* shouldRaise as computed in the first block
shouldRaise(id) ==
    /\ ~selected[id]
    /\ ~handRaised[id]
    /\ \A nb \in Range(getNeighbors(id)) : ~(handRaised[nb] \/ selected[nb])

\* mutant: the knight raises the hand of the seat to its right
KnightRaiseNextSeat(id) ==
    /\ kpc[id] = "raiseCS"
    /\ mtx = id
    /\ IF shouldRaise(id)
         THEN /\ handRaised' =
                   [handRaised EXCEPT ![(id + 1) % totalKnights] = TRUE]
              /\ kpc' = [kpc EXCEPT ![id] = "sleepRaised"]
         ELSE /\ handRaised' = handRaised
              /\ kpc' = [kpc EXCEPT ![id] = "sleepIdle"]
    /\ mtx' = NoOwner
    /\ UNCHANGED <<besidesTable, totalKnights, requiredKnights, thrown,
                   selected, selectedCount, stopFlag, attempts, available,
                   chosen, idx, cpc, validResult, idsResult>>

\* body of the first block, and the release at its end
KnightRaise(id) ==
    /\ kpc[id] = "raiseCS"
    /\ mtx = id
    /\ IF shouldRaise(id)
         THEN /\ handRaised' = [handRaised EXCEPT ![id] = TRUE]
              /\ kpc' = [kpc EXCEPT ![id] = "sleepRaised"]
         ELSE /\ handRaised' = handRaised
              /\ kpc' = [kpc EXCEPT ![id] = "sleepIdle"]
    /\ mtx' = NoOwner
    /\ UNCHANGED <<besidesTable, totalKnights, requiredKnights, thrown,
                   selected, selectedCount, stopFlag, attempts, available,
                   chosen, idx, cpc, validResult, idsResult>>

\* mutant: a knight that wakes up with the stop flag set skips the lowering
KnightLockLowerUnlessStopped(id) ==
    /\ kpc[id] = "sleepRaised"
    /\ IF stopFlag
         THEN /\ mtx' = mtx
              /\ kpc' = [kpc EXCEPT ![id] = "loop"]
         ELSE /\ mtx = NoOwner
              /\ mtx' = id
              /\ kpc' = [kpc EXCEPT ![id] = "lowerCS"]
    /\ UNCHANGED <<besidesTable, totalKnights, requiredKnights, thrown,
                   shared, attempts, available, chosen, idx, cpc, validResult,
                   idsResult>>

\* end of sleep_for(10..50 ms), then the std::lock_guard that follows it
KnightLockLower(id) ==
    /\ kpc[id] = "sleepRaised"
    /\ mtx = NoOwner
    /\ mtx' = id
    /\ kpc' = [kpc EXCEPT ![id] = "lowerCS"]
    /\ UNCHANGED <<besidesTable, totalKnights, requiredKnights, thrown,
                   shared, attempts, available, chosen, idx, cpc, validResult,
                   idsResult>>

\* mutant: the lowering section lowers the hand of a selected knight only
KnightLowerIfSelected(id) ==
    /\ kpc[id] = "lowerCS"
    /\ mtx = id
    /\ handRaised' = IF selected[id] /\ handRaised[id]
                       THEN [handRaised EXCEPT ![id] = FALSE]
                       ELSE handRaised
    /\ mtx' = NoOwner
    /\ kpc' = [kpc EXCEPT ![id] = "loop"]
    /\ UNCHANGED <<besidesTable, totalKnights, requiredKnights, thrown,
                   selected, selectedCount, stopFlag, attempts, available,
                   chosen, idx, cpc, validResult, idsResult>>

\* mutant: the lowering section leaves the hand up
KnightLowerForgotten(id) ==
    /\ kpc[id] = "lowerCS"
    /\ mtx = id
    /\ mtx' = NoOwner
    /\ kpc' = [kpc EXCEPT ![id] = "loop"]
    /\ UNCHANGED <<besidesTable, totalKnights, requiredKnights, thrown,
                   shared, attempts, available, chosen, idx, cpc, validResult,
                   idsResult>>

\* if (!selected[id] && handRaised[id]) handRaised[id] = false; release
KnightLower(id) ==
    /\ kpc[id] = "lowerCS"
    /\ mtx = id
    /\ handRaised' = IF ~selected[id] /\ handRaised[id]
                       THEN [handRaised EXCEPT ![id] = FALSE]
                       ELSE handRaised
    /\ mtx' = NoOwner
    /\ kpc' = [kpc EXCEPT ![id] = "loop"]
    /\ UNCHANGED <<besidesTable, totalKnights, requiredKnights, thrown,
                   selected, selectedCount, stopFlag, attempts, available,
                   chosen, idx, cpc, validResult, idsResult>>

\* mutant: after the short sleep the knight goes on without the loop test
KnightWakeSkipsTest(id) ==
    /\ kpc[id] = "sleepIdle"
    /\ kpc' = [kpc EXCEPT ![id] = "try"]
    /\ UNCHANGED <<besidesTable, totalKnights, requiredKnights, thrown,
                   shared, mtx, attempts, available, chosen, idx, cpc,
                   validResult, idsResult>>

\* end of sleep_for(5 ms) of the else branch
KnightWake(id) ==
    /\ kpc[id] = "sleepIdle"
    /\ kpc' = [kpc EXCEPT ![id] = "loop"]
    /\ UNCHANGED <<besidesTable, totalKnights, requiredKnights, thrown,
                   shared, mtx, attempts, available, chosen, idx, cpc,
                   validResult, idsResult>>

knightProcess(id) ==
    \/ KnightLoop(id)
    \/ KnightLockRaise(id)
    \/ KnightRaise(id)
    \/ KnightLockLower(id)
    \/ KnightLower(id)
    \/ KnightWake(id)

(***************************************************************************)
(* startSelection()                                                        *)
(***************************************************************************)
StartSelection ==
    /\ cpc = "ready"
    /\ idx' = 0
    /\ cpc' = "spawn"
    /\ UNCHANGED <<besidesTable, totalKnights, requiredKnights, thrown,
                   shared, mtx, attempts, available, chosen, kpc, validResult,
                   idsResult>>

\* knights.emplace_back(&KnightSelection::knightProcess, this, i); after the
\* last one: int attempts = 0
SpawnKnight ==
    /\ cpc = "spawn"
    /\ kpc' = [kpc EXCEPT ![idx] = "loop"]
    /\ idx' = idx + 1
    /\ IF idx + 1 < totalKnights
         THEN UNCHANGED <<cpc, attempts>>
         ELSE cpc' = "while" /\ attempts' = 0
    /\ UNCHANGED <<besidesTable, totalKnights, requiredKnights, thrown,
                   shared, mtx, available, chosen, validResult, idsResult>>

\* mutant: the loop also ends when no further knight can be selected
selectionStopsWhenStuck ==
    /\ selectedCount < requiredKnights
    /\ attempts < maxAttempts
    /\ \E i \in Knights :
         ~selected[i] /\ \A nb \in Range(getNeighbors(i)) : ~selected[nb]

\* mutant: the loop test lets one more iteration run at selectedCount = K
selectionContinuesAtK ==
    selectedCount <= requiredKnights /\ attempts < maxAttempts

\* while (selectedCount < requiredKnights && attempts < maxAttempts)
selectionContinues ==
    selectedCount < requiredKnights /\ attempts < maxAttempts

\* the loop test, attempts++, std::vector<int> available
WhileCheck ==
    /\ cpc = "while"
    /\ IF selectionContinues
         THEN /\ attempts' = attempts + 1
              /\ cpc' = "snapshot"
         ELSE /\ attempts' = attempts
              /\ cpc' = "stop"
    /\ available' = {}
    /\ UNCHANGED <<besidesTable, totalKnights, requiredKnights, thrown,
                   shared, mtx, chosen, idx, kpc, validResult, idsResult>>

SnapshotLock ==
    /\ cpc = "snapshot"
    /\ mtx = NoOwner
    /\ mtx' = Main
    /\ cpc' = "snapshotCS"
    /\ UNCHANGED <<besidesTable, totalKnights, requiredKnights, thrown,
                   shared, attempts, available, chosen, idx, kpc, validResult,
                   idsResult>>

\* the knights pushed to available: hand raised, not selected, no selected
\* neighbour
isAvailable(i) ==
    /\ handRaised[i]
    /\ ~selected[i]
    /\ \A nb \in Range(getNeighbors(i)) : ~selected[nb]

\* mutant: an empty snapshot keeps the mutex during the sleep that follows
SnapshotSleepsLocked ==
    /\ cpc = "snapshotCS"
    /\ mtx = Main
    /\ available' = { i \in Knights : isAvailable(i) }
    /\ mtx' = IF available' # {} THEN NoOwner ELSE Main
    /\ cpc' = IF available' # {} THEN "commit" ELSE "sleepEmpty"
    /\ UNCHANGED <<besidesTable, totalKnights, requiredKnights, thrown,
                   shared, attempts, chosen, idx, kpc, validResult,
                   idsResult>>

Snapshot ==
    /\ cpc = "snapshotCS"
    /\ mtx = Main
    /\ available' = { i \in Knights : isAvailable(i) }
    /\ mtx' = NoOwner
    /\ cpc' = IF available' # {} THEN "commit" ELSE "sleepEmpty"
    /\ UNCHANGED <<besidesTable, totalKnights, requiredKnights, thrown,
                   shared, attempts, chosen, idx, kpc, validResult,
                   idsResult>>

\* int chosen = available[dis(gen)], then the std::lock_guard of the commit
CommitLock ==
    /\ cpc = "commit"
    /\ mtx = NoOwner
    /\ \E c \in available : chosen' = c
    /\ mtx' = Main
    /\ cpc' = "commitCS"
    /\ UNCHANGED <<besidesTable, totalKnights, requiredKnights, thrown,
                   shared, attempts, available, idx, kpc, validResult,
                   idsResult>>

\* mutant: the commit trusts the snapshot and makes no double check
commitUnchecked == TRUE

\* the double check of the commit
commitAllowed == ~selected[chosen] /\ handRaised[chosen]

\* mutant: a stale candidate ends the selection loop
CommitSelectStaleStops ==
    /\ cpc = "commitCS"
    /\ mtx = Main
    /\ IF commitAllowed
         THEN /\ selected' = [selected EXCEPT ![chosen] = TRUE]
              /\ handRaised' = [handRaised EXCEPT ![chosen] = FALSE]
              /\ cpc' = "commitCount"
              /\ UNCHANGED <<mtx, chosen>>
         ELSE /\ mtx' = NoOwner
              /\ chosen' = NoChoice
              /\ cpc' = "stop"
              /\ UNCHANGED <<selected, handRaised>>
    /\ UNCHANGED <<besidesTable, totalKnights, requiredKnights, thrown,
                   selectedCount, stopFlag, attempts, available, idx, kpc,
                   validResult, idsResult>>

\* mutant: the commit leaves the hand of the chosen knight up
CommitSelectHandLeftUp ==
    /\ cpc = "commitCS"
    /\ mtx = Main
    /\ IF commitAllowed
         THEN /\ selected' = [selected EXCEPT ![chosen] = TRUE]
              /\ cpc' = "commitCount"
              /\ UNCHANGED <<mtx, chosen>>
         ELSE /\ mtx' = NoOwner
              /\ chosen' = NoChoice
              /\ cpc' = "tail"
              /\ UNCHANGED selected
    /\ UNCHANGED <<besidesTable, totalKnights, requiredKnights, thrown,
                   handRaised, selectedCount, stopFlag, attempts, available,
                   idx, kpc, validResult, idsResult>>

\* if (!selected[chosen] && handRaised[chosen]) { selected[chosen] = true;
\* handRaised[chosen] = false; ...  A stale candidate leaves the block.
CommitSelect ==
    /\ cpc = "commitCS"
    /\ mtx = Main
    /\ IF commitAllowed
         THEN /\ selected' = [selected EXCEPT ![chosen] = TRUE]
              /\ handRaised' = [handRaised EXCEPT ![chosen] = FALSE]
              /\ cpc' = "commitCount"
              /\ UNCHANGED <<mtx, chosen>>
         ELSE /\ mtx' = NoOwner
              /\ chosen' = NoChoice
              /\ cpc' = "tail"
              /\ UNCHANGED <<selected, handRaised>>
    /\ UNCHANGED <<besidesTable, totalKnights, requiredKnights, thrown,
                   selectedCount, stopFlag, attempts, available, idx, kpc,
                   validResult, idsResult>>

\* mutant: the commit forgets selectedCount++
CommitCountForgotten ==
    /\ cpc = "commitCount"
    /\ mtx = Main
    /\ cpc' = "commitNeighbors"
    /\ UNCHANGED <<besidesTable, totalKnights, requiredKnights, thrown,
                   shared, mtx, attempts, available, chosen, idx, kpc,
                   validResult, idsResult>>

\* selectedCount++
CommitCount ==
    /\ cpc = "commitCount"
    /\ mtx = Main
    /\ selectedCount' = selectedCount + 1
    /\ cpc' = "commitNeighbors"
    /\ UNCHANGED <<besidesTable, totalKnights, requiredKnights, thrown,
                   selected, handRaised, stopFlag, mtx, attempts, available,
                   chosen, idx, kpc, validResult, idsResult>>

\* for (int neighbor : neighbors) handRaised[neighbor] = false; release
CommitNeighbors ==
    /\ cpc = "commitNeighbors"
    /\ mtx = Main
    /\ handRaised' = [i \in Knights |->
                        IF i \in Range(getNeighbors(chosen)) THEN FALSE
                        ELSE handRaised[i]]
    /\ mtx' = NoOwner
    /\ chosen' = NoChoice
    /\ cpc' = "tail"
    /\ UNCHANGED <<besidesTable, totalKnights, requiredKnights, thrown,
                   selected, selectedCount, stopFlag, attempts, available,
                   idx, kpc, validResult, idsResult>>

\* else branch: end of sleep_for(10 ms)
SleepEmpty ==
    /\ cpc = "sleepEmpty"
    /\ cpc' = "tail"
    /\ UNCHANGED <<besidesTable, totalKnights, requiredKnights, thrown,
                   shared, mtx, attempts, available, chosen, idx, kpc,
                   validResult, idsResult>>

\* mutant: the hands are reset when the snapshot of the iteration was empty
resetWhenSnapshotEmpty == available = {}

\* if (attempts % 20 == 0)
resetDue == attempts % resetEvery = 0

\* the test of the periodic reset; when due, its std::lock_guard
ResetCheck ==
    /\ cpc = "tail"
    /\ IF resetDue
         THEN /\ mtx = NoOwner
              /\ mtx' = Main
              /\ cpc' = "resetCS"
         ELSE /\ mtx' = mtx
              /\ cpc' = "sleepIter"
    /\ UNCHANGED <<besidesTable, totalKnights, requiredKnights, thrown,
                   shared, attempts, available, chosen, idx, kpc, validResult,
                   idsResult>>

\* mutant: the periodic reset clears the selected flags as well
ResetHandsAndSelected ==
    /\ cpc = "resetCS"
    /\ mtx = Main
    /\ handRaised' = [i \in Knights |-> FALSE]
    /\ selected' = [i \in Knights |-> FALSE]
    /\ mtx' = NoOwner
    /\ cpc' = "sleepIter"
    /\ UNCHANGED <<besidesTable, totalKnights, requiredKnights, thrown,
                   selectedCount, stopFlag, attempts, available, chosen, idx,
                   kpc, validResult, idsResult>>

\* std::fill(handRaised.begin(), handRaised.end(), false); release
ResetHands ==
    /\ cpc = "resetCS"
    /\ mtx = Main
    /\ handRaised' = [i \in Knights |-> FALSE]
    /\ mtx' = NoOwner
    /\ cpc' = "sleepIter"
    /\ UNCHANGED <<besidesTable, totalKnights, requiredKnights, thrown,
                   selected, selectedCount, stopFlag, attempts, available,
                   chosen, idx, kpc, validResult, idsResult>>

\* end of sleep_for(5 ms), end of the loop body
SleepIter ==
    /\ cpc = "sleepIter"
    /\ cpc' = "while"
    /\ available' = {}
    /\ UNCHANGED <<besidesTable, totalKnights, requiredKnights, thrown,
                   shared, mtx, attempts, chosen, idx, kpc, validResult,
                   idsResult>>

\* stopFlag = true
Stop ==
    /\ cpc = "stop"
    /\ stopFlag' = TRUE
    /\ idx' = 0
    /\ cpc' = "join"
    /\ UNCHANGED <<besidesTable, totalKnights, requiredKnights, thrown,
                   selected, handRaised, selectedCount, mtx, attempts,
                   available, chosen, kpc, validResult, idsResult>>

\* mutant: join() returns whether or not the thread has finished
joinReturnsAtOnce(i) == kpc[i] # "unborn"

\* knight.join() returns once that thread has left knightProcess
joinReturns(i) == kpc[i] = "done"

\* for (auto& knight : knights) knight.join(); after the last one the
\* function prints the outcome and returns
JoinKnight ==
    /\ cpc = "join"
    /\ joinReturns(idx)
    /\ idx' = idx + 1
    /\ cpc' = IF idx + 1 < totalKnights THEN "join" ELSE "returned"
    /\ UNCHANGED <<besidesTable, totalKnights, requiredKnights, thrown,
                   shared, mtx, attempts, available, chosen, kpc, validResult,
                   idsResult>>

startSelection ==
    \/ StartSelection
    \/ SpawnKnight
    \/ WhileCheck
    \/ SnapshotLock
    \/ Snapshot
    \/ CommitLock
    \/ CommitSelect
    \/ CommitCount
    \/ CommitNeighbors
    \/ SleepEmpty
    \/ ResetCheck
    \/ ResetHands
    \/ SleepIter
    \/ Stop
    \/ JoinKnight

(***************************************************************************)
(* Calls made by the caller after startSelection() has returned.           *)
(***************************************************************************)
\* bool validateSelection() const (takes and releases mtx; no other thread
\* is left)
CallValidate ==
    /\ cpc = "returned"
    /\ mtx = NoOwner
    /\ validResult' = IF validateSelection THEN "true" ELSE "false"
    /\ UNCHANGED <<besidesTable, totalKnights, requiredKnights, thrown,
                   shared, mtx, attempts, available, chosen, idx, cpc, kpc,
                   idsResult>>

\* mutant: the getter hands the flags over and clears them
CallGetSelectedClearing ==
    /\ cpc = "returned"
    /\ mtx = NoOwner
    /\ idsResult' = getSelectedKnights
    /\ selected' = [i \in Knights |-> FALSE]
    /\ UNCHANGED <<besidesTable, totalKnights, requiredKnights, thrown,
                   handRaised, selectedCount, stopFlag, mtx, attempts,
                   available, chosen, idx, cpc, kpc, validResult>>

\* std::vector<int> getSelectedKnights() const
CallGetSelected ==
    /\ cpc = "returned"
    /\ mtx = NoOwner
    /\ idsResult' = getSelectedKnights
    /\ UNCHANGED <<besidesTable, totalKnights, requiredKnights, thrown,
                   shared, mtx, attempts, available, chosen, idx, cpc, kpc,
                   validResult>>

(***************************************************************************)
(* The fully interleaved program: every argument pair, every schedule.     *)
(***************************************************************************)
\* one step of the program, the constructor arguments drawn from T x R
NextOf(T, R) ==
    \/ \E tk \in T, rk \in R : Construct(tk, rk)
    \/ \E id \in Knights : KnightLoop(id)
    \/ \E id \in Knights : KnightLockRaise(id)
    \/ \E id \in Knights : KnightRaise(id)
    \/ \E id \in Knights : KnightLockLower(id)
    \/ \E id \in Knights : KnightLower(id)
    \/ \E id \in Knights : KnightWake(id)
    \/ startSelection
    \/ CallValidate
    \/ CallGetSelected

Next == NextOf(TotalArgs, RequiredArgs)

Spec == Init /\ [][Next]_vars

\* the same program on rings of up to MaxWideKnights seats: on four seats
\* two knights can be selected in one run
WideTotalArgs == {-64, -1, 0} \cup (1 .. MaxWideKnights)

WideRequiredArgs == (-1) .. (MaxWideKnights + 1)

WideNext == NextOf(WideTotalArgs, WideRequiredArgs)

WideSpec == Init /\ [][WideNext]_vars

(***************************************************************************)
(* The program under a fair scheduler.  Every thread that can take a step  *)
(* eventually takes it (weak fairness).  A thread blocked in               *)
(* std::lock_guard gets the mutex if the mutex is free again and again     *)
(* (strong fairness): between two critical sections every other thread     *)
(* sleeps for at least 5 ms or leaves, so a waiting thread is not overtaken *)
(* for ever.                                                               *)
(***************************************************************************)
FairTotalArgs == {-64, 0} \cup (1 .. MaxFairKnights)

FairRequiredArgs == 0 .. (MaxFairKnights + 1)

FairNext == NextOf(FairTotalArgs, FairRequiredArgs)

KnightFairness(id) ==
    /\ WF_vars(id \in Knights /\ (KnightLoop(id) \/ KnightRaise(id)
                                      \/ KnightLower(id) \/ KnightWake(id)))
    /\ SF_vars(id \in Knights /\ (KnightLockRaise(id) \/ KnightLockLower(id)))

MainFairness ==
    /\ WF_vars(startSelection)
    /\ SF_vars(SnapshotLock \/ CommitLock \/ ResetCheck)

FairSpec ==
    /\ Init
    /\ [][FairNext]_vars
    /\ \A id \in 0 .. (MaxFairKnights - 1) : KnightFairness(id)
    /\ MainFairness

(***************************************************************************)
(* A caller that calls startSelection() again on an object whose run has   *)
(* returned.  The function has no guard against it: it starts N new        *)
(* threads on the same flags and runs its loop with a fresh local attempts *)
(* counter.  The caller may or may not call again (no fairness on the      *)
(* call); the threads are scheduled as in FairSpec.                        *)
(***************************************************************************)
\* mutant: a new call starts from a cleared object
StartSelectionAgainResets ==
    /\ cpc = "returned"
    /\ idx' = 0
    /\ cpc' = "spawn"
    /\ stopFlag' = FALSE
    /\ selectedCount' = 0
    /\ selected' = [i \in Knights |-> FALSE]
    /\ UNCHANGED <<besidesTable, totalKnights, requiredKnights, thrown,
                   handRaised, mtx, attempts, available, chosen, kpc,
                   validResult, idsResult>>

\* startSelection() called on an object whose run has returned
StartSelectionAgain ==
    /\ cpc = "returned"
    /\ idx' = 0
    /\ cpc' = "spawn"
    /\ UNCHANGED <<besidesTable, totalKnights, requiredKnights, thrown,
                   shared, mtx, attempts, available, chosen, kpc, validResult,
                   idsResult>>

AgainNext == FairNext \/ StartSelectionAgain

AgainSpec ==
    /\ Init
    /\ [][AgainNext]_vars
    /\ \A id \in 0 .. (MaxFairKnights - 1) : KnightFairness(id)
    /\ MainFairness

(***************************************************************************)
(* The object when startSelection() has returned.  The function joins      *)
(* every thread it started before it returns (lines 180-184), so from then *)
(* on the caller is the only thread and the only steps left are its calls  *)
(* of validateSelection() and getSelectedKnights().  Rings of more than    *)
(* MaxWideKnights seats, those of the tests QuickTest, SimpleSelection and *)
(* ValidateAlgorithm among them, are out of reach of the interleaved       *)
(* specifications; FlagsSpec starts where the run has returned, in every   *)
(* state the interleaved run can return with, and goes on with the calls.  *)
(*                                                                         *)
(* Those states are: selected[] any set of at most K seats no two of which *)
(* are next to each other (a hand goes up only when no neighbour is        *)
(* selected or has its hand up, lines 63-72, and only a raised hand is     *)
(* committed, lines 139-161; of the knights of such a set each raises and  *)
(* is committed in turn, and the others get no processor time); the loop   *)
(* of line 110 left at selectedCount = K after K attempts or more, or with *)
(* fewer selected when the budget is used up; every hand down, every       *)
(* thread finished, the mutex free.  ReturnIsAnOutcome states that the     *)
(* interleaved program returns in such states only; it holds on WideSpec,  *)
(* and every such state of a ring of up to MaxWideKnights seats is         *)
(* returned by a run of WideSpec.                                          *)
(***************************************************************************)
\* the configurations of the tests QuickTest, SimpleSelection and
\* ValidateAlgorithm
TestedArgs == { <<12, 5>>, <<8, 4>>, <<6, 3>>, <<10, 5>> }

\* the configurations FlagsSpec starts from: every ring of up to
\* MaxFlagKnights seats with every K the constructor accepts, and the
\* tested ones
FlagsArgs ==
    { a \in (1 .. MaxFlagKnights) \X (1 .. MaxFlagKnights) : a[2] <= a[1] }
        \cup TestedArgs

\* every knight is selected or sits next to a selected knight
Blocked ==
    \A i \in Knights :
        selected[i] \/ \E nb \in Range(getNeighbors(i)) : selected[nb]

\* the values of selected[] the loop can leave on a ring of n seats with k
\* required: no two different seats next to each other, at most k seats
loopOutcomes(n, k) ==
    { f \in [0 .. (n - 1) -> BOOLEAN] :
        /\ \A i \in 0 .. (n - 1) :
              f[i] => \A nb \in Range(neighborsOf(i, n)) \ {i} : ~f[nb]
        /\ countFrom(f, 0, n) <= k }

\* the values of attempts the loop of line 110 can end with when c of the
\* k required knights are selected: an iteration commits at most one knight
attemptsAtExit(c, k) == IF c = k THEN k .. maxAttempts ELSE {maxAttempts}

\* a state in which startSelection() can return
isOutcome ==
    /\ selected \in loopOutcomes(totalKnights, requiredKnights)
    /\ selectedCount = countFrom(selected, 0, totalKnights)
    /\ attempts \in attemptsAtExit(selectedCount, requiredKnights)
    /\ handRaised = [i \in Knights |-> FALSE]
    /\ stopFlag = TRUE
    /\ mtx = NoOwner
    /\ available = {}
    /\ chosen = NoChoice
    /\ idx = totalKnights
    /\ kpc = [i \in Knights |-> "done"]

\* the interleaved program returns in such a state only
ReturnIsAnOutcome == cpc = "returned" => isOutcome

\* startSelection() has returned on an object of one of the configurations
\* of FlagsArgs; no call has been made on it since
FlagsInit ==
    /\ \E a \in FlagsArgs : totalKnights = a[1] /\ requiredKnights = a[2]
    /\ thrown = "none"
    /\ isOutcome
    /\ cpc = "returned"
    /\ validResult = "none"
    /\ idsResult = << >>
    /\ NoWorld
    /\ NoBook

FlagsNext ==
    \/ CallValidate
    \/ CallGetSelected

FlagsSpec == FlagsInit /\ [][FlagsNext]_vars

(***************************************************************************)
(* City capture over MPI (part3-mpi/src/CityCapture.cpp).                  *)
(*                                                                         *)
(* Rank 0 runs masterProcess(), ranks 1 .. num_cities_ run cityProcess(),  *)
(* higher ranks are idle; every rank ends simulateCapture() in             *)
(* MPI_Barrier.  A step of a rank is one MPI call together with the local  *)
(* statements that lead to the next call.  Messages between rank 0 and a   *)
(* city are kept in send order; a receive takes the first message whose    *)
(* tag matches (MPI_ANY_TAG matches every tag).  A standard-mode MPI_Send  *)
(* returns at once when the library buffers the message (eagerSend) and    *)
(* otherwise when the message has been received.  A rank leaves its k-th   *)
(* MPI_Barrier when every rank of the job has entered k barriers.          *)
(***************************************************************************)
\* numbers of cities tried: none (the constructor takes any int; the loops
\* of masterProcess are empty then), one city, the smallest number the
\* driver accepts, and the number used by the test BasicSimulation
CityCounts == {0, 1, 2, 5}

\* largest number of ranks above num_cities_ (idle ranks)
MaxIdleRanks == 1

\* generateCipherPart returns (h1 ^ h2) % 1000 + 1000
CipherLow == 1000

CipherHigh == 1999

\* number of values of generateCipherPart that are tried
CipherSamples == 1

\* the values generateCipherPart is modelled to return: it mixes in the
\* clock, so any value of its range can come out; the samples start at the
\* low end and, from the second on, include the high end
CipherParts ==
    { CipherLow + k * (CipherHigh - CipherLow) : k \in 0 .. (CipherSamples - 1) }
        \cap (CipherLow .. CipherHigh)

AnyTag == -1

NoRank == -1

FinishSignal == -1

Ranks == DOMAIN rpc

Cities == 1 .. num_cities_

\* the permutations of 1 .. n, as sequences (std::shuffle)
Orders(n) ==
    { f \in [1 .. n -> 1 .. n] : \A a, b \in 1 .. n : a # b => f[a] # f[b] }

\* index of the first message of queue q that a receive with tag t matches,
\* 0 when there is none
firstMatch(q, t) ==
    IF \E k \in DOMAIN q : t = AnyTag \/ q[k].tag = t
      THEN CHOOSE k \in DOMAIN q :
               /\ t = AnyTag \/ q[k].tag = t
               /\ \A h \in 1 .. (k - 1) : ~(t = AnyTag \/ q[h].tag = t)
      ELSE 0

\* queue q without its k-th message
without(q, k) == [h \in 1 .. (Len(q) - 1) |-> IF h < k THEN q[h] ELSE q[h + 1]]

\* a rank enters its k-th barrier / may leave it
allArrived(r) == \A q \in Ranks : barriers[q] >= barriers[r]

\* mpirun -np w, CityCapture(n) on every rank
Launch(n, w) ==
    /\ rpc = << >>
    /\ num_cities_' = n
    /\ world_size_' = w
    /\ eagerSend' \in BOOLEAN
    /\ mismatchHangs' \in (IF w > n + 1 THEN BOOLEAN ELSE {FALSE})
    /\ rpc' = [r \in 0 .. (w - 1) |->
                 IF r = 0 THEN "m_shuffle"
                 ELSE IF r <= n THEN "c_bcast" ELSE "i_exit"]
    /\ cstep' = [r \in 0 .. (w - 1) |-> 0]
    /\ ci' = [r \in 0 .. (w - 1) |-> 0]
    /\ my_cipher_part' = [r \in 0 .. (w - 1) |-> 0]
    /\ cipher_parts_' = [r \in 0 .. (w - 1) |-> << >>]
    /\ toCity' = [c \in 1 .. n |-> << >>]
    /\ toMaster' = [c \in 1 .. n |-> << >>]
    /\ sending' = [r \in 0 .. (w - 1) |-> NoRank]
    /\ barriers' = [r \in 0 .. (w - 1) |-> 0]
    /\ UNCHANGED <<besidesJob, driverState, capture_order, bcastSent, mstep,
                   mj, captured_cities, cipher_part, new_cipher_part>>

\* a rank that is not blocked inside MPI_Send
running(r) == r \in Ranks /\ sending[r] = NoRank

\* MPI_Send(value(s), dest, tag) by rank 0: the message is queued; the rank
\* is blocked in the call unless the library buffers
masterSends(dest, t, v) ==
    /\ toCity' = [toCity EXCEPT ![dest] = Append(@, [tag |-> t, val |-> v])]
    /\ sending' = [sending EXCEPT ![0] = IF eagerSend THEN NoRank ELSE dest]

\* MPI_Send(value(s), 0, tag) by city c
citySends(c, t, v) ==
    /\ toMaster' = [toMaster EXCEPT ![c] = Append(@, [tag |-> t, val |-> v])]
    /\ sending' = [sending EXCEPT ![c] = IF eagerSend THEN NoRank ELSE 0]

\* the blocked MPI_Send of rank r returns: its message has been received
SendCompletes(r) ==
    /\ r \in Ranks
    /\ sending[r] # NoRank
    /\ IF r = 0 THEN toCity[sending[r]] = << >> ELSE toMaster[r] = << >>
    /\ sending' = [sending EXCEPT ![r] = NoRank]
    /\ UNCHANGED <<besidesJob, driverState, num_cities_, world_size_,
                   eagerSend, mismatchHangs, capture_order, bcastSent, rpc,
                   mstep, mj, captured_cities, cipher_part, new_cipher_part,
                   cstep, ci, my_cipher_part, cipher_parts_, toCity, toMaster,
                   barriers>>

(***************************************************************************)
(* masterProcess() on rank 0                                               *)
(***************************************************************************)
\* capture_order[step] of the step in progress (cities are numbered from 1)
current_city == capture_order[mstep + 1]

\* std::shuffle(capture_order.begin(), capture_order.end(), g)
MasterShuffle ==
    /\ running(0)
    /\ rpc[0] = "m_shuffle"
    /\ capture_order' \in Orders(num_cities_)
    /\ rpc' = [rpc EXCEPT ![0] = "m_bcast"]
    /\ UNCHANGED <<besidesJob, driverState, num_cities_, world_size_,
                   eagerSend, mismatchHangs, bcastSent, mstep, mj,
                   captured_cities, cipher_part, new_cipher_part, cstep, ci,
                   my_cipher_part, cipher_parts_, toCity, toMaster, sending,
                   barriers>>

\* MPI_Bcast(capture_order.data(), ...) at the root, then step = 0
MasterBcast ==
    /\ running(0)
    /\ rpc[0] = "m_bcast"
    /\ ~mismatchHangs
    /\ bcastSent' = TRUE
    /\ mstep' = 0
    /\ captured_cities' = << >>
    /\ rpc' = [rpc EXCEPT ![0] = IF 0 < num_cities_ THEN "m_notify"
                                   ELSE "m_exit"]
    /\ UNCHANGED <<besidesJob, driverState, num_cities_, world_size_,
                   eagerSend, mismatchHangs, capture_order, mj, cipher_part,
                   new_cipher_part, cstep, ci, my_cipher_part, cipher_parts_,
                   toCity, toMaster, sending, barriers>>

\* the MPI_Send calls of masterProcess: line 76 (m_notify), line 90 (m_fwd),
\* line 106 (m_fwdNew), line 112 (m_sendCur), line 136 (m_finish)
MasterSend ==
    /\ running(0)
    /\ rpc[0] \in {"m_notify", "m_fwd", "m_fwdNew", "m_sendCur", "m_finish"}
    /\ LET site == rpc[0]
           dest == CASE site \in {"m_notify", "m_sendCur"} -> current_city
                     [] site \in {"m_fwd", "m_fwdNew"} -> captured_cities[mj]
                     [] OTHER -> mj
           t == CASE site = "m_notify" -> 0
                  [] site = "m_fwd" -> 2 + mstep
                  [] site = "m_fwdNew" -> 4 + mstep
                  [] site = "m_sendCur" -> 5 + mstep
                  [] OTHER -> 100
           v == CASE site = "m_notify" -> << mstep >>
                  [] site = "m_fwd" -> << cipher_part >>
                  [] site \in {"m_fwdNew", "m_sendCur"} -> << new_cipher_part >>
                  [] OTHER -> << FinishSignal >>
           more == CASE site \in {"m_fwd", "m_fwdNew"}
                            -> mj < Len(captured_cities)
                     [] site = "m_finish" -> mj < num_cities_
                     [] OTHER -> FALSE
           after == CASE site = "m_notify" -> "m_recvPart"
                      [] site = "m_fwd" -> "m_recvNew"
                      [] site = "m_fwdNew" -> "m_sendCur"
                      [] site = "m_sendCur" -> "m_push"
                      [] OTHER -> "m_exit"
       IN  /\ masterSends(dest, t, v)
           /\ mj' = IF more THEN mj + 1 ELSE mj
           /\ rpc' = [rpc EXCEPT ![0] = IF more THEN site ELSE after]
    /\ UNCHANGED <<besidesJob, driverState, num_cities_, world_size_,
                   eagerSend, mismatchHangs, capture_order, bcastSent, mstep,
                   captured_cities, cipher_part, new_cipher_part, cstep, ci,
                   my_cipher_part, cipher_parts_, toMaster, barriers>>

\* the MPI_Recv calls of masterProcess: line 80 (m_recvPart), line 97
\* (m_recvNew), line 126 (m_gather).  A message longer than the receive
\* buffer is MPI_ERR_TRUNCATE, which aborts the job.
MasterRecv ==
    /\ running(0)
    /\ rpc[0] \in {"m_recvPart", "m_recvNew", "m_gather"}
    /\ LET site == rpc[0]
           src == CASE site = "m_recvPart" -> current_city
                    [] site = "m_recvNew" -> captured_cities[1]
                    [] OTHER -> mj
           t == CASE site = "m_recvPart" -> 1
                  [] site = "m_recvNew" -> 3 + mstep
                  [] OTHER -> 99
           room == IF site = "m_gather" THEN num_cities_ ELSE 1
           k == firstMatch(toMaster[src], t)
           msg == toMaster[src][k]
       IN  /\ k # 0
           /\ toMaster' = [toMaster EXCEPT ![src] = without(@, k)]
           /\ cipher_part' = IF site = "m_recvPart" THEN msg.val[1]
                             ELSE cipher_part
           /\ new_cipher_part' = IF site = "m_recvNew" THEN msg.val[1]
                                 ELSE new_cipher_part
           /\ IF Len(msg.val) > room
                THEN /\ rpc' = [r \in Ranks |-> "aborted"]
                     /\ mj' = mj
              ELSE IF site = "m_recvPart"
                THEN /\ mj' = 1
                     /\ rpc' = [rpc EXCEPT ![0] =
                                  IF captured_cities = << >> THEN "m_push"
                                  ELSE "m_fwd"]
              ELSE IF site = "m_recvNew"
                THEN /\ mj' = 2
                     /\ rpc' = [rpc EXCEPT ![0] =
                                  IF Len(captured_cities) >= 2 THEN "m_fwdNew"
                                  ELSE "m_sendCur"]
              ELSE /\ mj' = IF mj < num_cities_ THEN mj + 1 ELSE 1
                   /\ rpc' = [rpc EXCEPT ![0] =
                                IF mj < num_cities_ THEN "m_gather"
                                ELSE "m_finish"]
    /\ UNCHANGED <<besidesJob, driverState, num_cities_, world_size_,
                   eagerSend, mismatchHangs, capture_order, bcastSent, mstep,
                   captured_cities, cstep, ci, my_cipher_part, cipher_parts_,
                   toCity, sending, barriers>>

\* the MPI_Barrier calls of rank 0: line 119 (entered at m_push, after
\* captured_cities.push_back; left at m_inStepBarrier, then ++step and the
\* loop test) and line 40 (entered at m_exit, left at m_inFinalBarrier)
MasterBarrier ==
    /\ running(0)
    /\ rpc[0] \in {"m_push", "m_inStepBarrier", "m_exit", "m_inFinalBarrier"}
    /\ rpc[0] \in {"m_inStepBarrier", "m_inFinalBarrier"} => allArrived(0)
    /\ barriers' = IF rpc[0] \in {"m_push", "m_exit"}
                     THEN [barriers EXCEPT ![0] = @ + 1]
                     ELSE barriers
    /\ captured_cities' = IF rpc[0] = "m_push"
                            THEN Append(captured_cities, current_city)
                            ELSE captured_cities
    /\ mstep' = IF rpc[0] = "m_inStepBarrier" THEN mstep + 1 ELSE mstep
    /\ mj' = IF rpc[0] = "m_inStepBarrier" THEN 1 ELSE mj
    /\ rpc' = [rpc EXCEPT ![0] =
                 CASE rpc[0] = "m_push" -> "m_inStepBarrier"
                   [] rpc[0] = "m_inStepBarrier" ->
                        IF mstep + 1 < num_cities_ THEN "m_notify"
                        ELSE "m_gather"
                   [] rpc[0] = "m_exit" -> "m_inFinalBarrier"
                   [] OTHER -> "returned"]
    /\ UNCHANGED <<besidesJob, driverState, num_cities_, world_size_,
                   eagerSend, mismatchHangs, capture_order, bcastSent,
                   cipher_part, new_cipher_part, cstep, ci, my_cipher_part,
                   cipher_parts_, toCity, toMaster, sending>>

(***************************************************************************)
(* cityProcess() on ranks 1 .. num_cities_, and the idle ranks             *)
(***************************************************************************)
\* MPI_Bcast at a city, then my_cipher_part = generateCipherPart(city_id)
\* and cipher_parts_.push_back(my_cipher_part)
CityBcast(c) ==
    /\ running(c)
    /\ rpc[c] = "c_bcast"
    /\ bcastSent
    /\ ~mismatchHangs
    /\ \E v \in CipherParts :
           /\ my_cipher_part' = [my_cipher_part EXCEPT ![c] = v]
           /\ cipher_parts_' = [cipher_parts_ EXCEPT ![c] = Append(@, v)]
    /\ rpc' = [rpc EXCEPT ![c] = "c_loop"]
    /\ UNCHANGED <<besidesJob, driverState, num_cities_, world_size_,
                   eagerSend, mismatchHangs, capture_order, bcastSent, mstep,
                   mj, captured_cities, cipher_part, new_cipher_part, cstep,
                   ci, toCity, toMaster, sending, barriers>>

\* where the command loop goes after it has received the value s as step:
\* -1 ends the loop; otherwise capture_order[step] is compared with the
\* city's id.  For a step outside [0, num_cities_) the vector is read out
\* of bounds: either branch can be taken, or the process dies.
afterCommand(c, s) ==
    IF s = FinishSignal THEN {"c_sendAll"}
    ELSE IF s >= 0 /\ s < num_cities_
      THEN IF capture_order[s + 1] = c THEN {"c_sendMine"}
           ELSE {"c_recvOther"}
    ELSE {"c_sendMine", "c_recvOther", "crashed"}

\* the MPI_Recv calls of cityProcess: line 158 (c_loop, any tag), line 178
\* (c_recvParts), line 198 (c_recvOther), lines 190 and 209 (c_recvNew)
CityRecv(c) ==
    /\ running(c)
    /\ rpc[c] \in {"c_loop", "c_recvParts", "c_recvOther", "c_recvNew"}
    /\ LET site == rpc[c]
           t == CASE site = "c_loop" -> AnyTag
                  [] site = "c_recvNew" -> 4 + cstep[c]
                  [] OTHER -> 2 + cstep[c]
           k == firstMatch(toCity[c], t)
           msg == toCity[c][k]
       IN  /\ k # 0
           /\ toCity' = [toCity EXCEPT ![c] = without(@, k)]
           /\ cstep' = IF site = "c_loop"
                         THEN [cstep EXCEPT ![c] = msg.val[1]]
                         ELSE cstep
           /\ cipher_parts_' = IF site = "c_loop" THEN cipher_parts_
                               ELSE [cipher_parts_ EXCEPT
                                        ![c] = Append(@, msg.val[1])]
           /\ ci' = IF site = "c_recvParts" THEN [ci EXCEPT ![c] = @ + 1]
                    ELSE ci
           /\ \E next \in
                  CASE site = "c_loop" -> afterCommand(c, msg.val[1])
                    [] site = "c_recvParts" ->
                         IF ci[c] + 1 < cstep[c] THEN {"c_recvParts"}
                         ELSE IF cstep[c] = 0 THEN {"c_sendNew"}
                         ELSE {"c_recvNew"}
                    [] site = "c_recvOther" ->
                         IF c = capture_order[1] THEN {"c_sendNew"}
                         ELSE {"c_recvNew"}
                    [] OTHER -> {"c_barrier"} :
                  rpc' = [rpc EXCEPT ![c] = next]
    /\ UNCHANGED <<besidesJob, driverState, num_cities_, world_size_,
                   eagerSend, mismatchHangs, capture_order, bcastSent, mstep,
                   mj, captured_cities, cipher_part, new_cipher_part,
                   my_cipher_part, toMaster, sending, barriers>>

\* the MPI_Send calls of cityProcess: line 173 (c_sendMine), lines 186 and
\* 205 (c_sendNew, after generateCipherPart), line 219 (c_sendAll)
CitySend(c) ==
    /\ running(c)
    /\ rpc[c] \in {"c_sendMine", "c_sendNew", "c_sendAll"}
    /\ LET site == rpc[c]
           t == CASE site = "c_sendMine" -> 1
                  [] site = "c_sendNew" -> 3 + cstep[c]
                  [] OTHER -> 99
           payloads == CASE site = "c_sendMine" -> { << my_cipher_part[c] >> }
                         [] site = "c_sendNew" ->
                              { << v >> : v \in CipherParts }
                         [] OTHER -> { cipher_parts_[c] }
           after == CASE site = "c_sendMine" ->
                           IF 0 < cstep[c] THEN "c_recvParts"
                           ELSE IF cstep[c] = 0 THEN "c_sendNew"
                           ELSE "c_recvNew"
                      [] site = "c_sendNew" -> "c_barrier"
                      [] OTHER -> "c_exit"
       IN  /\ \E v \in payloads : citySends(c, t, v)
           /\ ci' = IF site = "c_sendMine" THEN [ci EXCEPT ![c] = 0] ELSE ci
           /\ rpc' = [rpc EXCEPT ![c] = after]
    /\ UNCHANGED <<besidesJob, driverState, num_cities_, world_size_,
                   eagerSend, mismatchHangs, capture_order, bcastSent, mstep,
                   mj, captured_cities, cipher_part, new_cipher_part, cstep,
                   my_cipher_part, cipher_parts_, toCity, barriers>>

\* the rank is in a barrier it may leave, or is about to enter one
barrierStep(r, entering, waiting) ==
    /\ rpc[r] \in entering \cup waiting
    /\ rpc[r] \in waiting => allArrived(r)
    /\ barriers' = IF rpc[r] \in entering
                     THEN [barriers EXCEPT ![r] = @ + 1]
                     ELSE barriers

\* the MPI_Barrier calls of a city: line 215 (entered at c_barrier, left at
\* c_inStepBarrier for the head of the loop) and line 40 (c_exit,
\* c_inFinalBarrier)
CityBarrier(c) ==
    /\ running(c)
    /\ barrierStep(c, {"c_barrier", "c_exit"},
                      {"c_inStepBarrier", "c_inFinalBarrier"})
    /\ rpc' = [rpc EXCEPT ![c] =
                 CASE rpc[c] = "c_barrier" -> "c_inStepBarrier"
                   [] rpc[c] = "c_inStepBarrier" -> "c_loop"
                   [] rpc[c] = "c_exit" -> "c_inFinalBarrier"
                   [] OTHER -> "returned"]
    /\ UNCHANGED <<besidesJob, driverState, num_cities_, world_size_,
                   eagerSend, mismatchHangs, capture_order, bcastSent, mstep,
                   mj, captured_cities, cipher_part, new_cipher_part, cstep,
                   ci, my_cipher_part, cipher_parts_, toCity, toMaster,
                   sending>>

\* a rank above num_cities_: the MPI_Barrier of line 40 and nothing else
IdleBarrier(r) ==
    /\ running(r)
    /\ barrierStep(r, {"i_exit"}, {"i_inFinalBarrier"})
    /\ rpc' = [rpc EXCEPT ![r] = IF rpc[r] = "i_exit" THEN "i_inFinalBarrier"
                                   ELSE "returned"]
    /\ UNCHANGED <<besidesJob, driverState, num_cities_, world_size_,
                   eagerSend, mismatchHangs, capture_order, bcastSent, mstep,
                   mj, captured_cities, cipher_part, new_cipher_part, cstep,
                   ci, my_cipher_part, cipher_parts_, toCity, toMaster,
                   sending>>

\* simulateCapture() on every rank of one job
simulateCapture ==
    \/ MasterShuffle
    \/ MasterBcast
    \/ MasterSend
    \/ MasterRecv
    \/ MasterBarrier
    \/ \E c \in Cities : CityBcast(c)
    \/ \E c \in Cities : CityRecv(c)
    \/ \E c \in Cities : CitySend(c)
    \/ \E c \in Cities : CityBarrier(c)
    \/ \E r \in Ranks \ (Cities \cup {0}) : IdleBarrier(r)
    \/ \E r \in Ranks : SendCompletes(r)

(***************************************************************************)
(* main() after simulateCapture() has returned (main.cpp, lines 41-56).    *)
(***************************************************************************)
\* the verdict of validateResults() on rank 0 (lines 273-281): every entry
\* of cipher_sizes equals num_cities_
all_complete(sizes) == \A k \in DOMAIN sizes : sizes[k] = num_cities_

\* bool CityCapture::validateResults() const, called on rank r by a rank
\* that is back from simulateCapture().  On rank 0 (lines 264-281): the
\* vector cipher_sizes(num_cities_), then for i = 1 .. num_cities_ one
\* MPI_Recv(&cipher_sizes[i-1], 1, MPI_INT, i, 101, ...), then the verdict,
\* which main() stores in valid (line 46).  On a city (lines 282-286):
\* MPI_Send of cipher_parts_.size() to rank 0 with tag 101.  On an idle
\* rank (line 289): return false.  The value a rank other than 0 returns
\* is kept nowhere.
validateResultsOn(r) ==
    /\ running(r)
    /\ rpc[r] = "returned" \/ (r = 0 /\ rpc[r] = "v_recv")
    /\ IF r = 0 /\ rpc[r] = "returned"
         THEN /\ cipher_sizes' = [k \in 1 .. num_cities_ |-> 0]
              /\ mj' = 1
              /\ rpc' = [rpc EXCEPT ![r] = IF 1 <= num_cities_ THEN "v_recv"
                                           ELSE "validated"]
              /\ valid' = IF 1 <= num_cities_ THEN valid
                          ELSE IF all_complete(cipher_sizes') THEN "true"
                          ELSE "false"
              /\ UNCHANGED <<toMaster, sending>>
       ELSE IF r = 0
         THEN LET k == firstMatch(toMaster[mj], 101)
                  msg == toMaster[mj][k]
              IN  /\ k # 0
                  /\ toMaster' = [toMaster EXCEPT ![mj] = without(@, k)]
                  /\ cipher_sizes' = [cipher_sizes EXCEPT ![mj] = msg.val[1]]
                  /\ mj' = IF mj < num_cities_ THEN mj + 1 ELSE mj
                  /\ rpc' = [rpc EXCEPT ![r] =
                               IF mj < num_cities_ THEN "v_recv"
                               ELSE "validated"]
                  /\ valid' = IF mj < num_cities_ THEN valid
                              ELSE IF all_complete(cipher_sizes') THEN "true"
                              ELSE "false"
                  /\ UNCHANGED sending
       ELSE IF r <= num_cities_
         THEN /\ citySends(r, 101, << Len(cipher_parts_[r]) >>)
              /\ rpc' = [rpc EXCEPT ![r] = "validated"]
              /\ UNCHANGED <<cipher_sizes, mj, valid>>
       ELSE /\ rpc' = [rpc EXCEPT ![r] = "validated"]
            /\ UNCHANGED <<cipher_sizes, mj, valid, toMaster, sending>>
    /\ UNCHANGED <<besidesJob, num_cities_, world_size_, eagerSend,
                   mismatchHangs, capture_order, bcastSent, mstep,
                   captured_cities, cipher_part, new_cipher_part, cstep, ci,
                   my_cipher_part, cipher_parts_, toCity, barriers>>

\* the ranks on which main() calls validateResults(): "if (world_rank == 0)"
\* (main.cpp, line 42); every other rank goes on to MPI_Finalize
validatingRanks == {0}

\* simulator.validateResults() in main() (main.cpp, line 46)
validateResults == \E r \in validatingRanks : validateResultsOn(r)

CityNext ==
    \/ \E n \in CityCounts, i \in 0 .. MaxIdleRanks : Launch(n, n + 1 + i)
    \/ simulateCapture
    \/ validateResults

CitySpec == Init /\ [][CityNext]_vars

(***************************************************************************)
(* Letter frequencies with OpenMP (part2-openmp/src/book_analyzer.cpp).    *)
(*                                                                         *)
(* analyzeTextImpl(text, threads) scans the bytes of the text in a         *)
(* parallel loop, schedule(dynamic, chunk): a thread of the team takes the *)
(* next chunk of indices, runs the loop body on each index of the chunk,   *)
(* and comes back for another chunk until none is left.  Each thread       *)
(* counts into its own map localFreq[threadId] and its own copy of         *)
(* totalLetters (reduction); after the parallel region the copies are      *)
(* added up and the maps are merged by the calling thread.  A text is a    *)
(* sequence of bytes 0 .. 255, a letter a sequence of two bytes.  A step   *)
(* of a thread is one chunk request or one execution of the loop body.     *)
(*                                                                         *)
(* The loop body increments the loop variable of the omp for (line 146),   *)
(* which OpenMP does not allow; whether the increment reaches the counter  *)
(* the runtime iterates with is left to the build (loopVarWritable).       *)
(***************************************************************************)
\* schedule(dynamic, 4096) in the source; the model hands out chunks short
\* enough for a text of a few bytes to span several of them
chunkSize == 3

\* largest team; also what omp_get_max_threads() returns
MaxThreads == 2

\* bytes[pos] of the source (sequences are indexed from 1)
byteAt(bytes, pos) == bytes[pos + 1]

\* isRussianLetterUTF8(bytes, pos, length), the value returned.  0xD0 = 208,
\* 0xD1 = 209; second byte 0x90 .. 0xBF = 144 .. 191 after 0xD0, and
\* 0x80 .. 0x8F = 128 .. 143 or 0x91 = 145 after 0xD1.  The third branch
\* (0xD0 0x81) comes after the test c1 == 0xD0 of the first.
isRussianLetterUTF8(bytes, pos, length) ==
    IF pos >= length THEN FALSE
    ELSE IF byteAt(bytes, pos) = 208
      THEN IF pos + 1 >= length THEN FALSE
           ELSE \/ byteAt(bytes, pos + 1) \in 144 .. 159
                \/ byteAt(bytes, pos + 1) \in 160 .. 175
                \/ byteAt(bytes, pos + 1) \in 176 .. 191
    ELSE IF byteAt(bytes, pos) = 209
      THEN IF pos + 1 >= length THEN FALSE
           ELSE \/ byteAt(bytes, pos + 1) \in 128 .. 143
                \/ byteAt(bytes, pos + 1) = 145
    ELSE IF byteAt(bytes, pos) = 208 /\ pos + 1 < length
      THEN byteAt(bytes, pos + 1) = 129
    ELSE FALSE

\* getRussianLetterUTF8(bytes, pos): the two bytes at pos
getRussianLetterUTF8(bytes, pos) == << byteAt(bytes, pos), byteAt(bytes, pos + 1) >>

\* toLowerRussianUTF8(letter): 0xD0 0x90..0x9F -> 0xD0 (c2 + 0x20),
\* 0xD0 0xA0..0xAF -> 0xD1 (c2 - 0x20), 0xD0 0x81 -> 0xD1 0x91, anything
\* else unchanged
toLowerRussianUTF8(letter) ==
    IF Len(letter) # 2 THEN letter
    ELSE IF letter[1] = 208 /\ letter[2] >= 144 /\ letter[2] <= 159
      THEN << letter[1], (letter[2] + 32) % 256 >>
    ELSE IF letter[1] = 208 /\ letter[2] >= 160 /\ letter[2] <= 175
      THEN << 209, (letter[2] - 32) % 256 >>
    ELSE IF letter[1] = 208 /\ letter[2] = 129
      THEN << 209, 145 >>
    ELSE letter

\* map[key] += n on a std::map / std::unordered_map (a missing key starts
\* at 0)
addTo(map, key, n) ==
    [k \in (DOMAIN map) \cup {key} |->
        (IF k \in DOMAIN map THEN map[k] ELSE 0) + (IF k = key THEN n ELSE 0)]

\* for (const auto& pair : loc) map[pair.first] += pair.second
addAll(map, loc) ==
    [k \in (DOMAIN map) \cup (DOMAIN loc) |->
        (IF k \in DOMAIN map THEN map[k] ELSE 0)
          + (IF k \in DOMAIN loc THEN loc[k] ELSE 0)]

\* mutant: only the map of thread 0 is merged
mergedFirstOnly(t) == IF t = 0 THEN << >> ELSE localFreq[0]

\* globalFreq after the maps of the threads 0 .. t-1 have been merged
RECURSIVE merged(_)
merged(t) == IF t = 0 THEN << >> ELSE addAll(merged(t - 1), localFreq[t - 1])

\* reduction(+:totalLetters): the private copies of threads 0 .. t-1 added
RECURSIVE reduced(_)
reduced(t) == IF t = 0 THEN 0 ELSE reduced(t - 1) + threadLetters[t - 1]

Team == DOMAIN tpc

\* analyzeText(t, n): analyzeTextImpl up to the start of the parallel region
AnalyzeText(t, n, w) ==
    /\ apc = "idle"
    /\ text' = t
    /\ threads' = IF n <= 0 THEN MaxThreads ELSE n
    /\ loopVarWritable' = w
    /\ nextChunk' = 0
    /\ tpc' = [th \in 0 .. (threads' - 1) |-> "next"]
    /\ ti' = [th \in 0 .. (threads' - 1) |-> 0]
    /\ tend' = [th \in 0 .. (threads' - 1) |-> 0]
    /\ localFreq' = [th \in 0 .. (threads' - 1) |-> << >>]
    /\ threadLetters' = [th \in 0 .. (threads' - 1) |-> 0]
    /\ totalLetters' = 0
    /\ globalFreq' = << >>
    /\ apc' = "parallel"
    /\ UNCHANGED besidesBook

\* schedule(dynamic, chunk): the thread takes the next chunk, or finds none
\* left and waits at the end of the loop
TakeChunk(th) ==
    /\ apc = "parallel"
    /\ tpc[th] = "next"
    /\ IF nextChunk < Len(text)
         THEN /\ ti' = [ti EXCEPT ![th] = nextChunk]
              /\ tend' = [tend EXCEPT ![th] =
                            IF nextChunk + chunkSize < Len(text)
                              THEN nextChunk + chunkSize ELSE Len(text)]
              /\ nextChunk' = nextChunk + chunkSize
              /\ tpc' = [tpc EXCEPT ![th] = "body"]
         ELSE /\ tpc' = [tpc EXCEPT ![th] = "done"]
              /\ UNCHANGED <<ti, tend, nextChunk>>
    /\ UNCHANGED <<besidesBook, text, threads, loopVarWritable, localFreq,
                   threadLetters, totalLetters, globalFreq, apc>>

\* one execution of the loop body (lines 137-147) and the i++ of the loop
LoopBody(th) ==
    /\ apc = "parallel"
    /\ tpc[th] = "body"
    /\ LET i == ti[th]
           found == isRussianLetterUTF8(text, i, Len(text))
           lowerLetter == toLowerRussianUTF8(getRussianLetterUTF8(text, i))
           after == IF found /\ loopVarWritable THEN i + 2 ELSE i + 1
       IN  /\ localFreq' = IF found
                             THEN [localFreq EXCEPT
                                     ![th] = addTo(@, lowerLetter, 1)]
                             ELSE localFreq
           /\ threadLetters' = IF found
                                 THEN [threadLetters EXCEPT ![th] = @ + 1]
                                 ELSE threadLetters
           /\ ti' = [ti EXCEPT ![th] = after]
           /\ tpc' = [tpc EXCEPT ![th] = IF after < tend[th] THEN "body"
                                           ELSE "next"]
    /\ UNCHANGED <<besidesBook, text, threads, loopVarWritable, nextChunk,
                   tend, totalLetters, globalFreq, apc>>

\* end of the parallel region: every thread has arrived; the reduction
EndParallel ==
    /\ apc = "parallel"
    /\ \A th \in Team : tpc[th] = "done"
    /\ totalLetters' = totalLetters + reduced(threads)
    /\ apc' = "merge"
    /\ UNCHANGED <<besidesBook, text, threads, loopVarWritable, nextChunk,
                   tpc, ti, tend, localFreq, threadLetters, globalFreq>>

\* lines 152-157 and the return of the result
MergeResults ==
    /\ apc = "merge"
    /\ globalFreq' = merged(threads)
    /\ apc' = "returned"
    /\ UNCHANGED <<besidesBook, text, threads, loopVarWritable, nextChunk,
                   tpc, ti, tend, localFreq, threadLetters, totalLetters>>

analyzeTextImpl ==
    \/ \E th \in Team : TakeChunk(th)
    \/ \E th \in Team : LoopBody(th)
    \/ EndParallel
    \/ MergeResults

\* the code points of the 33 upper-case Russian letters, U+0410 .. U+042F
\* and U+0401 (Ё), the lower-case form of each, U+0430 .. U+044F and
\* U+0451, and the two bytes of a code point of 128 .. 2047 in UTF-8
UpperCodePoints == (1040 .. 1071) \cup {1025}

lowerCodePoint(u) == IF u = 1025 THEN 1105 ELSE u + 32

utf8(cp) == << 192 + (cp \div 64), 128 + (cp % 64) >>

\* texts analysed: each letter in upper case followed by its lower case
\* (as "АаБбВвГг" of the test CaseInsensitive, one letter at a time), the
\* same after one ASCII byte, which moves the letters by one index, and
\* texts without a complete letter
TextSamples ==
    { utf8(u) \o utf8(lowerCodePoint(u)) : u \in UpperCodePoints }
      \cup { << 97 >> \o utf8(u) \o utf8(lowerCodePoint(u)) :
               u \in UpperCodePoints }
      \cup { << >>, << 208 >>, << 97, 90 >>, << 208, 208, 144 >>,
             << 209, 160, 209 >> }

\* thread counts passed: 0 (the default, "auto"), 1 and 2 as in the test
ThreadArgs == 0 .. MaxThreads

BookNext ==
    \/ \E t \in TextSamples, n \in ThreadArgs, w \in BOOLEAN :
           AnalyzeText(t, n, w)
    \/ analyzeTextImpl

BookSpec == Init /\ [][BookNext]_vars

(***************************************************************************)
(* Vocabulary of the properties.                                           *)
(***************************************************************************)
\* an object exists: the constructor has returned without throwing
Constructed == cpc \notin {"new", "failed"}

\* startSelection() has returned
Returned == cpc = "returned"

SelectedSet == { i \in Knights : selected[i] }

\* I3: no selected knight has a selected ring neighbour
AdjacencyExclusion ==
    \A i \in Knights :
        selected[i] => \A nb \in Range(getNeighbors(i)) : ~selected[nb]

(***************************************************************************)
(* C1.  Adjacency exclusion: for every accepted configuration, N = 1 and   *)
(* N = 2 included, in every reachable state no selected knight i has a     *)
(* selected ring neighbour, the neighbours being (i-1+N) mod N and         *)
(* (i+1) mod N.  On a ring of one seat the knight is its own neighbour,    *)
(* and the program selects it.                                             *)
(***************************************************************************)
C1_AdjacencyExclusionAlways == Constructed => AdjacencyExclusion

(***************************************************************************)
(* C2.  0 <= selectedCount <= K in every reachable state; the selection    *)
(* loop never commits a knight once selectedCount = K (whenever it is      *)
(* inside a commit that has passed the double check, selectedCount < K);   *)
(* a run that ends successfully ends with selectedCount = K exactly.       *)
(***************************************************************************)
C2_CountWithinRequired ==
    Constructed =>
        /\ 0 <= selectedCount
        /\ selectedCount <= requiredKnights
        /\ (cpc = "commitCount" => selectedCount < requiredKnights)
        /\ (Returned /\ selectedCount >= requiredKnights
               => selectedCount = requiredKnights)

\* a successful run that made two commits
C2_Witness ==
    /\ Returned
    /\ requiredKnights = 2
    /\ selectedCount = requiredKnights

\* every knight thread has left knightProcess
AllKnightsDone == \A id \in Knights : kpc[id] = "done"

(***************************************************************************)
(* C3.  Every run terminates: under a fair scheduler the selection loop    *)
(* makes at most maxAttempts iterations, then the stop flag is set, every  *)
(* knight leaves its loop and startSelection() returns, whether or not K   *)
(* knights could be selected.                                              *)
(***************************************************************************)
C3_RunTerminates ==
    /\ [](Constructed => attempts <= maxAttempts)
    /\ [](Returned => stopFlag /\ AllKnightsDone)
    /\ (cpc = "spawn") ~> Returned

\* a run that returned after using up the whole attempt budget
C3_Witness ==
    /\ Returned
    /\ AllKnightsDone
    /\ attempts = maxAttempts
    /\ selectedCount < requiredKnights

(***************************************************************************)
(* C4.  For N = 12, K = 5 every completed run of startSelection() ends     *)
(* with exactly 5 selected knights, pairwise non-adjacent on the ring, and *)
(* validateSelection() returns true.                                       *)
(***************************************************************************)
C4_TwelveFiveSelectsFive ==
    (Returned /\ totalKnights = 12 /\ requiredKnights = 5) =>
        /\ Len(getSelectedKnights) = 5
        /\ AdjacencyExclusion
        /\ validateSelection

(***************************************************************************)
(* C5.  For N = 6, K = 3 every completed run succeeds: exactly 3 knights   *)
(* are selected, in an alternating pattern ({0,2,4} or {1,3,5}), and       *)
(* validateSelection() returns true.                                       *)
(***************************************************************************)
C5_SixThreeAlternates ==
    (Returned /\ totalKnights = 6 /\ requiredKnights = 3) =>
        /\ SelectedSet \in { {0, 2, 4}, {1, 3, 5} }
        /\ validateSelection

(***************************************************************************)
(* C6.  If K = N every knight is eventually selected: the run reaches a    *)
(* state in which selected[i] holds for all i.  Selections are never       *)
(* undone, so such a state would still be there when the run has ended.    *)
(***************************************************************************)
C6_AllSelectedWhenKEqualsN ==
    (Returned /\ requiredKnights = totalKnights) =>
        \A i \in Knights : selected[i]

\* C6 as amended.  If K = N and N >= 2, the run never selects every
\* knight: at most floor(N/2) knights are ever selected, and the run ends
\* only when the attempt budget is used up, with selectedCount < K.
C6_FullRingNeverSelected ==
    (Constructed /\ requiredKnights = totalKnights /\ totalKnights >= 2) =>
        /\ Cardinality(SelectedSet) <= totalKnights \div 2
        /\ selectedCount <= totalKnights \div 2
        /\ Returned => (attempts = maxAttempts /\ selectedCount < requiredKnights)

\* a run with K = N = 3 that ended with one knight selected
C6_Witness ==
    /\ Returned
    /\ totalKnights = 3
    /\ requiredKnights = 3
    /\ Cardinality(SelectedSet) = 1

(***************************************************************************)
(* C7.  Construction fails with std::invalid_argument for every input      *)
(* with totalKnights <= 0 (zero or negative), requiredKnights <= 0 or      *)
(* requiredKnights > totalKnights, and succeeds for every input with       *)
(* 0 < requiredKnights <= totalKnights; no such error is raised after      *)
(* construction.                                                           *)
(***************************************************************************)
C7_ConstructionGuards ==
    cpc # "new" =>
        /\ invalidArguments(totalKnights, requiredKnights)
             => (cpc = "failed" /\ thrown = "invalid_argument")
        /\ ~invalidArguments(totalKnights, requiredKnights)
             => (Constructed /\ thrown = "none")

(***************************************************************************)
(* C8.  Construction with requiredKnights > floor(totalKnights / 2) (for   *)
(* example N = 4, K = 3) is rejected, so that no object exists, and no run *)
(* is ever started, for a K that no independent set of the ring can reach. *)
(***************************************************************************)
C8_InfeasibleRejected ==
    Constructed => ~(requiredKnights > totalKnights \div 2)

\* C8 as amended.  Construction with floor(N/2) < K <= N (for example
\* N = 4, K = 3) is accepted: the constructor rejects only K > N and
\* non-positive arguments.  A run can be started for such a K; for N >= 2
\* it never reaches K selections and ends through the attempt budget, and
\* validateSelection() then returns false.
C8_InfeasibleAccepted ==
    /\ (cpc # "new" /\ 0 < requiredKnights /\ requiredKnights <= totalKnights)
          => (Constructed /\ thrown = "none")
    /\ (Constructed /\ totalKnights >= 2
           /\ requiredKnights > totalKnights \div 2)
          => /\ selectedCount < requiredKnights
             /\ Returned => (attempts = maxAttempts /\ ~validateSelection)

\* the run of N = 4, K = 3 has been started and has ended, two selected
C8_Witness ==
    /\ Returned
    /\ totalKnights = 4
    /\ requiredKnights = 3
    /\ selectedCount = 2

(***************************************************************************)
(* C9.  Degraded termination is a result, not an error: when the attempt   *)
(* budget is used up with selectedCount < K, startSelection() still        *)
(* returns, nothing is thrown, every knight thread has stopped, the mutex  *)
(* is free, I1 (count = number of selected flags), I2 (a selected knight   *)
(* has its hand down) and I3 (adjacency exclusion) hold, and               *)
(* validateSelection() returns false.                                      *)
(***************************************************************************)
C9_DegradedIsAResult ==
    (Returned /\ selectedCount < requiredKnights) =>
        /\ attempts = maxAttempts
        /\ thrown = "none"
        /\ stopFlag
        /\ AllKnightsDone
        /\ mtx = NoOwner
        /\ selectedCount = Cardinality(SelectedSet)
        /\ \A i \in Knights : selected[i] => ~handRaised[i]
        /\ AdjacencyExclusion
        /\ ~validateSelection
        /\ validResult \in {"none", "false"}

\* a degraded run with a knight selected, and the caller has validated it
C9_Witness ==
    /\ Returned
    /\ selectedCount < requiredKnights
    /\ selectedCount > 0
    /\ validResult = "false"

(***************************************************************************)
(* C10.  I1: in every state in which the calling thread is not inside a    *)
(* critical section (it does not hold the mutex), selectedCount equals the *)
(* number of knights i with selected[i] true.                              *)
(***************************************************************************)
C10_CountMatchesFlags ==
    (Constructed /\ mtx # Main) => selectedCount = Cardinality(SelectedSet)

\* outside the critical section, right after a commit
C10_Witness ==
    /\ cpc = "tail"
    /\ mtx # Main
    /\ selectedCount = 1
    /\ Cardinality(SelectedSet) = 1

(***************************************************************************)
(* C11.  I2: in every reachable state a selected knight does not have its  *)
(* hand up (selected[i] implies not handRaised[i]), for every interleaving *)
(* of the knights' raise / lower steps with the commit and reset steps of  *)
(* the selection loop.                                                     *)
(***************************************************************************)
C11_SelectedHandDown ==
    Constructed => \A i \in Knights : selected[i] => ~handRaised[i]

\* a knight that was committed while it slept with its hand up, now inside
\* its lowering section
C11_Witness ==
    \E i \in Knights :
        /\ selected[i]
        /\ ~handRaised[i]
        /\ kpc[i] = "lowerCS"

(***************************************************************************)
(* C12.  Once the stop flag is true no knight state is modified any more:  *)
(* no selected flag, no handRaised flag and not selectedCount changes in   *)
(* any later step of a knight or of startSelection().                      *)
(***************************************************************************)
C12_FrozenOnceStopped ==
    [][stopFlag => UNCHANGED <<selected, handRaised, selectedCount>>]_vars

\* C12 as amended.  Once the stop flag is true, no selected flag and not
\* selectedCount changes any more; a knight that passed its loop test
\* before the flag was set may still raise its hand and lower it again.
\* Once startSelection() has returned every hand is down and no selected
\* flag, no handRaised flag and not selectedCount changes any more.
C12_FrozenAfterReturn ==
    /\ [][stopFlag => UNCHANGED <<selected, selectedCount>>]_vars
    /\ [][Returned => UNCHANGED <<selected, handRaised, selectedCount>>]_vars
    /\ [](Returned => \A i \in Knights : ~handRaised[i])

\* the stop flag is set and a knight still sleeps with its hand up
C12_Witness ==
    /\ stopFlag
    /\ \E i \in Knights : kpc[i] = "sleepRaised" /\ handRaised[i] /\ ~selected[i]

(***************************************************************************)
(* C13.  startSelection() returns only after the stop flag has been set    *)
(* and every one of the N knight threads has left its loop and been        *)
(* joined; no step of a knight occurs after the call has returned.         *)
(***************************************************************************)
C13_ReturnsAfterJoin ==
    /\ [](Returned => (stopFlag /\ AllKnightsDone /\ idx = totalKnights))
    /\ [][Returned => kpc' = kpc]_vars
    /\ [][(cpc # "returned" /\ cpc' = "returned")
             => (stopFlag /\ AllKnightsDone)]_vars

\* the call has returned on a ring of three: three threads were joined
C13_Witness ==
    /\ Returned
    /\ totalKnights = 3
    /\ idx = 3
    /\ AllKnightsDone

(***************************************************************************)
(* C14.  After startSelection() has returned, validateSelection() and      *)
(* getSelectedKnights() are idempotent: any number of calls, in any order, *)
(* return the same results and change no state.  The result a call has     *)
(* returned is the result a call made now would return.                    *)
(***************************************************************************)
C14_CallsIdempotent ==
    /\ [](Returned /\ validResult # "none"
             => validResult = (IF validateSelection THEN "true" ELSE "false"))
    /\ [](Returned /\ idsResult # << >> => idsResult = getSelectedKnights)
    /\ [][Returned => UNCHANGED <<besidesTable, totalKnights,
                                  requiredKnights, thrown, shared, mtx,
                                  attempts, available, chosen, idx, cpc,
                                  kpc>>]_vars
    /\ [][(Returned /\ validResult # "none") => validResult' = validResult]_vars
    /\ [][(Returned /\ idsResult # << >>) => idsResult' = idsResult]_vars

\* both calls have been made on a run that selected a knight
C14_Witness ==
    /\ Returned
    /\ validResult = "true"
    /\ idsResult # << >>

(***************************************************************************)
(* C15.  For every assignment of the selected flags over N knights,        *)
(* validateSelection() returns true if and only if exactly K flags are     *)
(* true and no true flag has a true ring neighbour.  The assignments are   *)
(* those startSelection() can return with.                                 *)
(***************************************************************************)
C15_ValidIffExactlyK ==
    (Returned /\ validResult # "none") =>
        ((validResult = "true")
            <=> (Cardinality(SelectedSet) = requiredKnights
                    /\ AdjacencyExclusion))

\* the call has returned true on a ring of more than MaxWideKnights seats
\* with exactly K flags set, K being three at least
C15_Witness ==
    /\ Returned
    /\ validResult = "true"
    /\ totalKnights > MaxWideKnights
    /\ requiredKnights >= 3
    /\ Cardinality(SelectedSet) = requiredKnights

(***************************************************************************)
(* C16.  getSelectedKnights() returns exactly the set {i : selected[i]}    *)
(* as a strictly ascending sequence: no id is repeated and every id lies   *)
(* in [0, N).                                                              *)
(***************************************************************************)
C16_SelectedIdsAscending ==
    Returned =>
        LET r == getSelectedKnights
        IN  /\ Range(r) = SelectedSet
            /\ Len(r) = Cardinality(SelectedSet)
            /\ \A a, b \in DOMAIN r : a < b => r[a] < r[b]
            /\ \A a \in DOMAIN r : 0 <= r[a] /\ r[a] < totalKnights
            /\ idsResult # << >> => idsResult = r

\* the call has returned three ids, the first of them not 0
C16_Witness ==
    /\ Returned
    /\ Len(idsResult) = 3
    /\ idsResult[1] > 0
    /\ Range(idsResult) = SelectedSet

Launched == rpc # << >>

\* simulateCapture() has returned on every rank
AllRanksReturned == \A r \in Ranks : rpc[r] = "returned"

\* no rank can take a step any more
JobStopped == Launched /\ ~ENABLED (simulateCapture \/ validateResults)

\* simulateCapture() has returned on every rank, whatever rank 0 has done
\* since
SimulationCompleted ==
    \A r \in Ranks : rpc[r] \in {"returned", "v_recv", "validated"}

(***************************************************************************)
(* C19.  CityCapture: with num_cities = 5 and at least num_cities + 1 MPI  *)
(* processes (rank 0 commander, ranks 1 .. num_cities cities, higher ranks *)
(* idle), simulateCapture() returns on every rank: no rank blocks for ever *)
(* in a receive, a broadcast or a barrier.  Stated on finite runs: as long *)
(* as some rank has not returned, some rank can take a step.  The jobs in  *)
(* which the library hangs on the collectives the idle ranks do not take   *)
(* part in are left aside.                                                 *)
(***************************************************************************)
C19_EveryRankReturns ==
    (Launched /\ num_cities_ = 5 /\ world_size_ >= num_cities_ + 1
       /\ ~mismatchHangs) =>
        (AllRanksReturned \/ ENABLED simulateCapture)

C21_ValidationVerdict ==
    (JobStopped /\ num_cities_ >= 2 /\ ~mismatchHangs) =>
        /\ rpc[0] = "validated"
        /\ DOMAIN cipher_sizes = Cities
        /\ \A c \in Cities : cipher_sizes[c] = Len(cipher_parts_[c])
        /\ valid = (IF \A c \in Cities : cipher_sizes[c] = num_cities_
                      THEN "true" ELSE "false")

\* analyzeText has returned its result
Analysed == apc = "returned"

\* the indices of the text at which a Russian letter starts, and the key
\* under which the letter at such an index is counted
letterStarts ==
    { i \in 0 .. (Len(text) - 1) : isRussianLetterUTF8(text, i, Len(text)) }

keyAt(i) == toLowerRussianUTF8(getRussianLetterUTF8(text, i))

(***************************************************************************)
(* C22.  BookAnalyzer: analyzeText yields the same letterFrequency map and *)
(* the same totalLetters for every thread count (tested for 1 and 2        *)
(* threads): each letter occurrence is counted exactly once however the    *)
(* text positions are divided among threads.  The result is a function of  *)
(* the text alone: totalLetters is the number of indices at which a letter *)
(* starts, and letterFrequency maps each key to the number of such indices *)
(* whose letter has that key, whatever the size of the team, whichever     *)
(* thread took which chunk, and whether or not the loop skips the second   *)
(* byte of a letter.                                                       *)
(***************************************************************************)
C22_SameForEveryTeam ==
    Analysed =>
        /\ totalLetters = Cardinality(letterStarts)
        /\ DOMAIN globalFreq = { keyAt(i) : i \in letterStarts }
        /\ \A k \in DOMAIN globalFreq :
               globalFreq[k] = Cardinality({ i \in letterStarts : keyAt(i) = k })

\* a team of two, each thread having counted one of the two letters of the
\* text; the second letter lay in another chunk than the first
C22_Witness ==
    /\ Analysed
    /\ threads = 2
    /\ totalLetters = 2
    /\ \A th \in Team : threadLetters[th] = 1 /\ localFreq[th] # << >>
    /\ \E k \in DOMAIN globalFreq : globalFreq[k] = 2

(***************************************************************************)
(* C23.  BookAnalyzer: counting is case-insensitive for every one of the   *)
(* 33 Russian letters, including Ё/ё: the upper-case and the lower-case    *)
(* form of a letter are both recognised as Russian letters and counted     *)
(* under the same lower-case key.  Stated on the analysis of a text made   *)
(* of the upper-case form of a letter followed by its lower-case form:     *)
(* the result counts two letters, both under the lower-case form.          *)
(***************************************************************************)
C23_CaseInsensitive ==
    Analysed =>
        \A u \in UpperCodePoints :
            text = utf8(u) \o utf8(lowerCodePoint(u)) =>
                /\ totalLetters = 2
                /\ DOMAIN globalFreq = { utf8(lowerCodePoint(u)) }
                /\ globalFreq[utf8(lowerCodePoint(u))] = 2

(***************************************************************************)
(* C24.  A knight raises its hand only through one atomic check-and-set:   *)
(* handRaised[id] becomes true only if, in the same critical section,      *)
(* selected[id] and handRaised[id] are false and neither neighbour has its *)
(* hand up; consequently in every reachable state no two ring-adjacent     *)
(* knights have their hands up at the same time.                           *)
(***************************************************************************)
C24_RaiseIsCheckAndSet ==
    /\ [][\A id \in Knights :
            (id \in DOMAIN handRaised' /\ ~handRaised[id] /\ handRaised'[id])
              => /\ mtx = id
                 /\ kpc[id] = "raiseCS"
                 /\ mtx' = NoOwner
                 /\ ~selected[id]
                 /\ \A nb \in Range(getNeighbors(id)) : ~handRaised[nb]
                 /\ \A j \in Knights \ {id} : handRaised'[j] = handRaised[j]
                 /\ selected' = selected]_vars
    /\ [](Constructed =>
            \A i \in Knights :
                \A nb \in Range(getNeighbors(i)) \ {i} :
                    ~(handRaised[i] /\ handRaised[nb]))

\* on a ring of three a knight sleeps with its hand up; both neighbours
\* found it up in their own check and sleep with their hands down
C24_Witness ==
    /\ totalKnights = 3
    /\ selectedCount = 0
    /\ \E i \in Knights :
           /\ handRaised[i]
           /\ kpc[i] = "sleepRaised"
           /\ \A nb \in Range(getNeighbors(i)) :
                  kpc[nb] = "sleepIdle" /\ ~handRaised[nb] /\ ~selected[nb]

(***************************************************************************)
(* C25.  A knight c is committed only if, at the instant of the commit's   *)
(* own critical section (not merely at the earlier snapshot), c has its    *)
(* hand up, c is not selected, and neither neighbour of c is selected.     *)
(***************************************************************************)
C25_CommitOnlyIfEligible ==
    [][\A c \in Knights :
         (c \in DOMAIN selected' /\ ~selected[c] /\ selected'[c])
           => /\ cpc = "commitCS"
              /\ mtx = Main
              /\ chosen = c
              /\ handRaised[c]
              /\ \A nb \in Range(getNeighbors(c)) : ~selected[nb]]_vars

\* a second commit on a ring of four: the flag of the chosen knight has
\* just been set, the mutex still held, while the knight opposite was
\* selected by an earlier commit and both neighbours are not selected
C25_Witness ==
    /\ cpc = "commitCount"
    /\ mtx = Main
    /\ totalKnights = 4
    /\ selectedCount = 1
    /\ selected[chosen]
    /\ selected[(chosen + 2) % totalKnights]
    /\ \A nb \in Range(getNeighbors(chosen)) : ~selected[nb]

\* a step that leaves the flags and the counter as they are
FlagsUntouched == UNCHANGED <<selected, handRaised, selectedCount>>

(***************************************************************************)
(* C26.  A successful commit of knight c sets selected[c] = true, clears   *)
(* handRaised[c] and the handRaised flags of both neighbours of c, and     *)
(* increases selectedCount by exactly 1, all in one critical section; it   *)
(* leaves selected[j] for every j # c and handRaised[j] for every j        *)
(* outside {c, left(c), right(c)} unchanged.  The commit is made of three  *)
(* steps of the calling thread, which holds the mutex from the first to    *)
(* the last; each step changes what is said here and nothing else, and no  *)
(* step of a knight in between touches a flag or the counter.              *)
(***************************************************************************)
C26_CommitEffects ==
    /\ [](cpc \in {"commitCount", "commitNeighbors"} =>
            mtx = Main /\ selected[chosen] /\ ~handRaised[chosen])
    /\ [][(cpc = "commitCS" /\ cpc' = "commitCount") =>
            /\ selected' = [selected EXCEPT ![chosen] = TRUE]
            /\ handRaised' = [handRaised EXCEPT ![chosen] = FALSE]
            /\ selectedCount' = selectedCount
            /\ chosen' = chosen]_vars
    /\ [][cpc = "commitCount" =>
            \/ cpc' = cpc /\ chosen' = chosen /\ FlagsUntouched
            \/ /\ cpc' = "commitNeighbors"
               /\ selectedCount' = selectedCount + 1
               /\ UNCHANGED <<selected, handRaised, chosen>>]_vars
    /\ [][cpc = "commitNeighbors" =>
            \/ cpc' = cpc /\ chosen' = chosen /\ FlagsUntouched
            \/ /\ cpc' = "tail"
               /\ mtx' = NoOwner
               /\ UNCHANGED <<selected, selectedCount>>
               /\ handRaised' =
                    [j \in Knights |->
                       IF j \in {(chosen - 1 + totalKnights) % totalKnights,
                                 (chosen + 1) % totalKnights}
                         THEN FALSE ELSE handRaised[j]]]_vars

\* inside a commit on a ring of four: the flag is set, the hand is down,
\* the counter has been incremented, the neighbours' hands come next; the
\* knight opposite, which is outside {c, left(c), right(c)}, has its hand
\* up and is not selected
C26_Witness ==
    /\ cpc = "commitNeighbors"
    /\ totalKnights = 4
    /\ selected[chosen]
    /\ ~handRaised[chosen]
    /\ selectedCount = 1
    /\ handRaised[(chosen + 2) % totalKnights]
    /\ ~selected[(chosen + 2) % totalKnights]

\* the candidate drawn from the snapshot no longer passes the double check
StaleCandidate ==
    /\ cpc = "commitCS"
    /\ ~(~selected[chosen] /\ handRaised[chosen])

(***************************************************************************)
(* C27.  A stale candidate is not an error: if the knight chosen from the  *)
(* snapshot no longer has its hand up (or is already selected) when the    *)
(* commit's critical section runs, the commit leaves selected, handRaised  *)
(* and selectedCount unchanged and the selection loop goes on to its next  *)
(* iteration: the step of the calling thread releases the mutex and leads  *)
(* to the end of the loop body, where a successful commit leads too, and   *)
(* from there to the loop test; nothing is thrown and the stop flag is not *)
(* set.                                                                    *)
(***************************************************************************)
C27_StaleCandidateSkipped ==
    /\ [][StaleCandidate =>
            /\ FlagsUntouched
            /\ UNCHANGED <<thrown, stopFlag, attempts>>
            /\ cpc' = cpc \/ (cpc' = "tail" /\ mtx' = NoOwner)]_vars
    /\ [][cpc = "tail" => cpc' \in {"tail", "resetCS", "sleepIter"}]_vars
    /\ [][cpc = "resetCS" => cpc' \in {"resetCS", "sleepIter"}]_vars
    /\ [][cpc = "sleepIter" => cpc' \in {"sleepIter", "while"}]_vars

\* the first iteration is at its end with a candidate in the snapshot and
\* nothing selected: the knight lowered its hand before the commit ran
C27_Witness ==
    /\ cpc = "tail"
    /\ attempts = 1
    /\ available # {}
    /\ selectedCount = 0
    /\ \A i \in Knights : ~selected[i]
    /\ thrown = "none"

\* the calling thread leaves the reset test of line 168
LeavesResetTest == cpc = "tail" /\ cpc' # "tail"

(***************************************************************************)
(* C28.  The selection loop clears all handRaised flags in an iteration    *)
(* exactly when that iteration's snapshot (available) is empty: it resets  *)
(* in every iteration with an empty snapshot and in no iteration with a    *)
(* non-empty snapshot.                                                     *)
(***************************************************************************)
C28_ResetIffSnapshotEmpty ==
    [][LeavesResetTest => ((cpc' = "resetCS") <=> (available = {}))]_vars

\* C28 as amended.  The selection loop clears all handRaised flags in an
\* iteration exactly when the number of that iteration (attempts, counted
\* from 1) is a multiple of 20, whether its snapshot was empty or not; the
\* reset is made under the mutex and lowers every hand.
C28_ResetEveryTwentieth ==
    /\ [][LeavesResetTest =>
            ((cpc' = "resetCS") <=> (attempts % 20 = 0))]_vars
    /\ [](cpc = "resetCS" => mtx = Main /\ attempts % 20 = 0)
    /\ [][(cpc = "resetCS" /\ cpc' # "resetCS") =>
            /\ handRaised' = [i \in Knights |-> FALSE]
            /\ UNCHANGED <<selected, selectedCount>>]_vars

\* the twentieth iteration found a candidate and resets all the same
C28_Witness ==
    /\ cpc = "resetCS"
    /\ attempts = 20
    /\ available # {}

\* knight id leaves the lowering section of lines 84-87
LeavesLowering(id) == kpc[id] = "lowerCS" /\ kpc'[id] # "lowerCS"

(***************************************************************************)
(* C29.  A knight that has raised its hand and, after its sleep, finds     *)
(* itself not selected keeps its hand up: it does not lower its own hand;  *)
(* a hand goes down without its knight being selected only in a commit of  *)
(* a neighbour or in a reset of startSelection().                          *)
(***************************************************************************)
C29_HandStaysUp ==
    /\ [][\A id \in Knights :
            (LeavesLowering(id) /\ handRaised[id] /\ ~selected[id])
                => handRaised'[id]]_vars
    /\ [][\A id \in Knights :
            (handRaised[id] /\ ~handRaised'[id] /\ ~selected'[id])
                => cpc \in {"commitNeighbors", "resetCS"}]_vars

\* C29 as amended.  A knight that has raised its hand and, after its sleep,
\* finds itself not selected and its hand still up lowers its own hand
\* under the mutex; in every case its hand is down when it leaves the
\* section, its selected flag is as before, and it goes back to its loop
\* test.  A hand goes down without its knight being selected only there,
\* in a commit of a neighbour or in a reset of startSelection().
C29_OwnHandLowered ==
    /\ [][\A id \in Knights :
            LeavesLowering(id) =>
                /\ mtx = id
                /\ ~handRaised'[id]
                /\ selected'[id] = selected[id]
                /\ kpc'[id] = "loop"]_vars
    /\ [][\A id \in Knights :
            (handRaised[id] /\ ~handRaised'[id] /\ ~selected'[id])
                => \/ LeavesLowering(id)
                   \/ cpc \in {"commitNeighbors", "resetCS"}]_vars

\* a knight holds the mutex after its sleep, its hand up and not selected,
\* while nothing has been selected and no reset has been made
C29_Witness ==
    \E id \in Knights :
        /\ kpc[id] = "lowerCS"
        /\ mtx = id
        /\ handRaised[id]
        /\ ~selected[id]
        /\ selectedCount = 0
        /\ attempts < 20
        /\ ~stopFlag

\* a step of the thread of knight id
KnightStep(id) ==
    /\ kpc[id] \in {"loop", "try", "raiseCS", "sleepRaised", "lowerCS",
                    "sleepIdle"}
    /\ kpc'[id] # kpc[id]

(***************************************************************************)
(* C30.  A step of knight id changes nothing of the shared state but       *)
(* handRaised[id]: it never modifies a selected flag, selectedCount, the   *)
(* stop flag, or handRaised[j] for any j other than id.                    *)
(***************************************************************************)
C30_KnightWritesOwnHandOnly ==
    [][\A id \in Knights :
         KnightStep(id) =>
             /\ UNCHANGED <<selected, selectedCount, stopFlag>>
             /\ \A j \in Knights \ {id} : handRaised'[j] = handRaised[j]]_vars

\* knight 0 of two has just raised its hand, the hand of knight 1 is down
\* and knight 1 is inside its own first block
C30_Witness ==
    /\ Knights = {0, 1}
    /\ kpc[0] = "sleepRaised"
    /\ handRaised[0]
    /\ ~handRaised[1]
    /\ kpc[1] = "try"
    /\ selectedCount = 0
    /\ ~stopFlag

(***************************************************************************)
(* C31.  Selections are monotone: selected[i] never changes from true to   *)
(* false and selectedCount never decreases; it changes only by +1, and     *)
(* only in the commit of startSelection(), under the mutex, for the knight *)
(* whose selected flag the commit has just set.                            *)
(***************************************************************************)
C31_SelectionsMonotone ==
    /\ [][\A i \in Knights : selected[i] => selected'[i]]_vars
    /\ [][selectedCount' # selectedCount =>
            /\ selectedCount' = selectedCount + 1
            /\ cpc = "commitCount"
            /\ mtx = Main
            /\ selected[chosen]]_vars

\* a knight was selected in an earlier iteration, the twentieth iteration
\* has just reset the hands, and the flag and the count are still there
C31_Witness ==
    /\ Knights # {}
    /\ cpc = "sleepIter"
    /\ attempts = 20
    /\ selectedCount = 1
    /\ selectedCount < requiredKnights
    /\ \E i \in Knights : selected[i]

\* knight id is in one of its two sleeps (lines 81 and 90)
KnightSleeps(id) == kpc[id] \in {"sleepRaised", "sleepIdle"}

\* the calling thread is in one of its two sleeps (lines 164 and 173)
MainSleeps == cpc \in {"sleepEmpty", "sleepIter"}

(***************************************************************************)
(* C32.  No thread sleeps while holding the mutex: in every reachable      *)
(* state in which a knight is in its sleep of 10..50 ms or of 5 ms, or     *)
(* startSelection() is in its sleep of 10 ms or of 5 ms, that thread does  *)
(* not own the mutex, and whenever the mutex is free a thread that waits   *)
(* for it can take it whoever sleeps.                                      *)
(***************************************************************************)
C32_NoSleepHoldingLock ==
    /\ \A id \in Knights : KnightSleeps(id) => mtx # id
    /\ MainSleeps => mtx # Main
    /\ \A id \in Knights :
         (kpc[id] = "try" /\ \A t \in Knights \cup {Main} :
                                (t = Main /\ MainSleeps)
                                \/ (t # Main /\ t # id /\ KnightSleeps(t)))
            => ENABLED KnightLockRaise(id)

\* the calling thread and one knight sleep while another knight is inside
\* its critical section
C32_Witness ==
    /\ cpc = "sleepIter"
    /\ \E id, other \in Knights :
         /\ id # other
         /\ kpc[id] = "sleepRaised"
         /\ kpc[other] = "raiseCS"
         /\ mtx = other

(***************************************************************************)
(* C33.  Cooperative cancellation: every knight reads the stop flag at the *)
(* head of each iteration of its loop.  An iteration is entered only from  *)
(* the loop test and only when the flag was read false; each iteration     *)
(* ends at the loop test; a knight that reads the flag true leaves the     *)
(* loop and never runs again.  The flag, once true, stays true, so a       *)
(* knight completes at most the iteration it is in and then stops.         *)
(***************************************************************************)
C33_StopsAtLoopHead ==
    /\ [][stopFlag => stopFlag']_vars
    /\ [][\A id \in Knights :
            (kpc'[id] = "try" /\ kpc[id] # "try")
                => (kpc[id] = "loop" /\ ~stopFlag)]_vars
    /\ [][\A id \in Knights :
            (kpc[id] \in {"lowerCS", "sleepIdle"} /\ kpc'[id] # kpc[id])
                => kpc'[id] = "loop"]_vars
    /\ [][\A id \in Knights :
            (kpc[id] = "loop" /\ stopFlag /\ kpc'[id] # kpc[id])
                => kpc'[id] = "done"]_vars
    /\ [][\A id \in Knights : kpc[id] = "done" => kpc'[id] = "done"]_vars

\* the flag is set; one knight has stopped at its loop test although fewer
\* than K are selected, another is still finishing its iteration
C33_Witness ==
    /\ stopFlag
    /\ selectedCount < requiredKnights
    /\ \E id, other \in Knights :
         /\ kpc[id] = "done"
         /\ kpc[other] = "sleepIdle"

\* the knights whose hand is up
RaisedSet == { i \in Knights : handRaised[i] }

(***************************************************************************)
(* C34.  In every reachable state no knight next to a selected knight has  *)
(* its hand up.  Hence every knight with its hand up passes the filter of  *)
(* the snapshot (available is the set of raised hands), and a commit that  *)
(* has passed its double check finds no neighbour of the chosen knight     *)
(* selected although it does not look at them: no two different            *)
(* neighbouring knights are ever selected.                                 *)
(***************************************************************************)
C34_NoHandBesideSelected ==
    /\ [](\A i \in Knights : \A nb \in Range(getNeighbors(i)) :
            selected[nb] => ~handRaised[i])
    /\ [][(cpc = "snapshotCS" /\ cpc' # "snapshotCS")
            => available' = RaisedSet]_vars
    /\ []((cpc = "commitCS" /\ commitAllowed)
            => \A nb \in Range(getNeighbors(chosen)) : ~selected[nb])
    /\ [](\A i \in Knights : \A nb \in Range(getNeighbors(i)) \ {i} :
            ~(selected[i] /\ selected[nb]))

\* on a ring of four a knight is selected and the knight opposite has its
\* hand up and is in the snapshot
C34_Witness ==
    /\ Knights = 0 .. 3
    /\ cpc = "commit"
    /\ \E i \in Knights :
         /\ selected[i]
         /\ RaisedSet = {(i + 2) % 4}
         /\ available = RaisedSet

\* ceil(N / 3) for the ring of the constructed object
ceilThird == (totalKnights + 2) \div 3

\* the knights that are not selected and have no selected neighbour
FreeSet ==
    { i \in Knights :
        ~selected[i] /\ \A nb \in Range(getNeighbors(i)) : ~selected[nb] }

(***************************************************************************)
(* C35.  If K <= ceil(N / 3) the run never becomes structurally stuck: in  *)
(* every reachable state with selectedCount < K (the commit being taken as *)
(* one step: the state between selected[chosen] = true and selectedCount++ *)
(* excepted) at least one knight is not selected and has no selected       *)
(* neighbour; such a knight is kept from raising its hand only by a hand   *)
(* that is up, and once its hand is up it passes the filter of the         *)
(* snapshot and the double check of the commit.                            *)
(***************************************************************************)
C35_NeverStuckBelowThird ==
    (Constructed /\ requiredKnights <= ceilThird
       /\ selectedCount < requiredKnights /\ cpc # "commitCount") =>
        /\ FreeSet # {}
        /\ ~Blocked
        /\ \A i \in FreeSet :
             /\ shouldRaise(i) <=>
                   (~handRaised[i]
                      /\ \A nb \in Range(getNeighbors(i)) : ~handRaised[nb])
             /\ handRaised[i] => isAvailable(i)
             /\ (handRaised[i] /\ cpc = "commitCS" /\ chosen = i)
                   => commitAllowed

\* on a ring of four with K = 2 = ceil(4 / 3) one knight is selected and the
\* free knight opposite is being committed
C35_Witness ==
    /\ Knights = 0 .. 3
    /\ requiredKnights = 2
    /\ selectedCount = 1
    /\ cpc = "commitCS"
    /\ commitAllowed
    /\ chosen \in FreeSet
    /\ selected[(chosen + 2) % 4]

(***************************************************************************)
(* C36.  Blocked states are absorbing: once every knight that is not       *)
(* selected has a selected neighbour (the commit being taken as one step), *)
(* every hand is down, no hand is ever raised again, and selected and      *)
(* selectedCount never change; if selectedCount < K at that point the      *)
(* selection loop ends only by using up its attempt budget.                *)
(***************************************************************************)
C36_BlockedIsAbsorbing ==
    /\ [][(Constructed /\ Blocked) => Blocked']_vars
    /\ []((Constructed /\ Blocked /\ cpc # "commitCount")
            => RaisedSet = {})
    /\ [][(Constructed /\ Blocked /\ cpc # "commitCount")
            => UNCHANGED <<selected, handRaised, selectedCount>>]_vars
    /\ [][(Constructed /\ Blocked /\ selectedCount < requiredKnights
             /\ cpc = "while" /\ cpc' # "while")
            => IF attempts = maxAttempts
                 THEN cpc' = "stop"
                 ELSE cpc' = "snapshot" /\ attempts' = attempts + 1]_vars

\* one of three knights is selected, two are required; the loop is in its
\* tenth iteration with an empty snapshot and a knight tries in vain
C36_Witness ==
    /\ Knights = 0 .. 2
    /\ Blocked
    /\ selectedCount = 1
    /\ requiredKnights = 2
    /\ attempts = 10
    /\ cpc = "sleepEmpty"
    /\ available = {}
    /\ \E id \in Knights : kpc[id] = "raiseCS" /\ ~shouldRaise(id)

(***************************************************************************)
(* C37.  When startSelection() returns every hand is down.  The hand of a  *)
(* knight is up only between its raise and the end of its lowering section *)
(* (during its sleep of 10..50 ms and while it waits for or holds the      *)
(* mutex after it), so a knight that has left its loop has its hand down;  *)
(* a selected knight's hand was cleared by the commit; and the call        *)
(* returns only when every knight has left.                                *)
(***************************************************************************)
C37_HandsDownAtReturn ==
    /\ Returned => (RaisedSet = {} /\ AllKnightsDone)
    /\ \A id \in Knights :
         /\ handRaised[id] => kpc[id] \in {"sleepRaised", "lowerCS"}
         /\ kpc[id] = "done" => ~handRaised[id]
         /\ selected[id] => ~handRaised[id]

\* the call has returned from a run of three knights in which a hand was
\* raised and committed in the first iteration
C37_Witness ==
    /\ Returned
    /\ Knights = 0 .. 2
    /\ requiredKnights = 1
    /\ attempts = 1
    /\ Cardinality(SelectedSet) = 1
    /\ RaisedSet = {}

\* a call of startSelection() made after the stop flag was set: the call
\* is before its own `stopFlag = true`
LaterCall ==
    /\ stopFlag
    /\ cpc \in {"spawn", "while", "snapshot", "snapshotCS", "commit",
                "commitCS", "commitCount", "commitNeighbors", "sleepEmpty",
                "tail", "resetCS", "sleepIter", "stop"}

(***************************************************************************)
(* C38.  A run is not restartable on the same object: the stop flag is     *)
(* never cleared and the flags are never reset, so a second call of        *)
(* startSelection() on an object whose first run has returned, successful  *)
(* or not, terminates under a fair scheduler and leaves selected and       *)
(* selectedCount as the first run left them: in the second call no knight  *)
(* enters an iteration, no hand goes up and nothing is committed.          *)
(***************************************************************************)
C38_SecondCallChangesNothing ==
    /\ [][stopFlag => (stopFlag' /\ UNCHANGED <<selected, selectedCount>>)]_vars
    /\ [](LaterCall =>
            /\ RaisedSet = {}
            /\ available = {}
            /\ \A id \in Knights : kpc[id] \in {"loop", "done"})
    /\ LaterCall ~> Returned

\* a second call on an object whose first run ended with one knight
\* selected of two required is in the last iteration of its loop
C38_Witness ==
    /\ LaterCall
    /\ cpc = "sleepIter"
    /\ attempts = maxAttempts
    /\ requiredKnights = 2
    /\ selectedCount = 1
    /\ Cardinality(SelectedSet) = 1
    /\ AllKnightsDone

====
